---- MODULE Spec2Model ----
(***************************************************************************)
(* Model of the media downloader bot: the Facebook fallback extraction     *)
(* chain (MediaDownloader.try_facebook_html_fallback), metadata resolution *)
(* (MediaDownloader.get_video_info), the per-user session written by       *)
(* handle_url and the download / delivery / cleanup path of                *)
(* button_callback.                                                        *)
(*                                                                         *)
(* Python strings are sequences of one-character strings, so that the      *)
(* substring tests, replacements and decodings of the source are computed  *)
(* and not assumed.  Python's None is the empty sequence where the value   *)
(* is a URL (every URL the code accepts is non-empty) and the string       *)
(* "None" where the value is a message.                                    *)
(***************************************************************************)
EXTENDS Integers, Sequences, FiniteSets, TLC

(***************************************************************************)
(* Python string primitives                                                *)
(***************************************************************************)

\* `p in s`
IsSubstr(p, s) ==
    \E i \in 1..(Len(s) - Len(p) + 1) : SubSeq(s, i, i + Len(p) - 1) = p

UpperCase ==
    <<"A","B","C","D","E","F","G","H","I","J","K","L","M",
      "N","O","P","Q","R","S","T","U","V","W","X","Y","Z">>

LowerCase ==
    <<"a","b","c","d","e","f","g","h","i","j","k","l","m",
      "n","o","p","q","r","s","t","u","v","w","x","y","z">>

\* the lower-case letter of an upper-case letter, any other character as it is
LowerChar(c) ==
    IF \E i \in 1..26 : UpperCase[i] = c
    THEN LowerCase[CHOOSE i \in 1..26 : UpperCase[i] = c]
    ELSE c

\* s.lower()
Lower(s) ==
    SubSeq([i \in 1..Len(s) |-> LowerChar(s[i])], 1, Len(s))

\* a left-to-right scan over the candidate positions C that takes a
\* candidate t and resumes span[t] characters later: a candidate is taken
\* exactly when it does not lie inside the span of a taken one
ScanStarts(C, span) ==
    CHOOSE T \in SUBSET C :
        \A m \in C : (m \in T) <=> ~\E t \in T : t < m /\ m < t + span[t]

\* s with the span of every taken position t replaced by out[t], which has
\* at most width characters; the other characters are kept.  The pieces
\* are laid out width apart and the unused places, marked "", dropped.
Rewrite(s, T, span, out, width) ==
    LET n == Len(s)
        Piece(i) == IF i \in T THEN out[i]
                    ELSE IF \E t \in T : t < i /\ i < t + span[t] THEN <<>>
                    ELSE <<s[i]>>
        pieces == SubSeq([i \in 1..n |-> Piece(i)], 1, n)
        padded == [k \in 1..(n * width) |->
                      LET piece == pieces[((k - 1) \div width) + 1]
                          j == ((k - 1) % width) + 1
                      IN  IF j <= Len(piece) THEN piece[j] ELSE ""]
    IN  SelectSeq(padded, LAMBDA c : c # "")

\* s.replace(a, b) for a non-empty a: left to right, non-overlapping
Replace(s, a, b) ==
    LET la == Len(a)
        matches == {i \in 1..(Len(s) - la + 1) : SubSeq(s, i, i + la - 1) = a}
        span == [t \in matches |-> la]
    IN  Rewrite(s, ScanStarts(matches, span), span, [t \in matches |-> b],
                IF Len(b) > 1 THEN Len(b) ELSE 1)

\* s.endswith(p)
EndsWith(s, p) ==
    Len(s) >= Len(p) /\ SubSeq(s, Len(s) - Len(p) + 1, Len(s)) = p

HexDigits ==
    {"0","1","2","3","4","5","6","7","8","9","a","b","c","d","e","f"}

\* the character a \uXXXX escape stands for; code points other than U+0026
\* are kept apart from every pattern character as "#"
EscapedChar(h) ==
    IF h = <<"0","0","2","6">> THEN "&" ELSE "#"

\* the backslash at position i starts a well-formed escape; a trailing
\* backslash and a \u not followed by four hex digits are not
WellFormedEscape(s, i) ==
    /\ i < Len(s)
    /\ s[i + 1] = "u" => (i + 5 <= Len(s) /\ \A k \in (i + 2)..(i + 5) : s[k] \in HexDigits)

\* the characters the escape at position i takes up
EscapeSpan(s, i) ==
    IF ~WellFormedEscape(s, i) THEN 1
    ELSE IF s[i + 1] = "u" THEN 6
    ELSE 2

\* what the well-formed escape at position i decodes to: a backslash or a
\* quote stands for itself, a control character is kept apart from every
\* pattern character as "#", and an escape the codec does not know is
\* kept, backslash included.  The \x, \U, \N and octal escapes do not
\* occur in the pages served.
EscapeValue(s, i) ==
    IF ~WellFormedEscape(s, i) THEN <<s[i]>>
    ELSE IF s[i + 1] = "u" THEN <<EscapedChar(SubSeq(s, i + 2, i + 5))>>
    ELSE IF s[i + 1] \in {"\\", "'", "\""} THEN <<s[i + 1]>>
    ELSE IF s[i + 1] \in {"a", "b", "f", "n", "r", "t", "v"} THEN <<"#">>
    ELSE <<s[i], s[i + 1]>>

\* video_url.encode('utf-8').decode('unicode_escape') inside try/except: pass
\* a truncated \u escape or a trailing backslash raises and leaves s unchanged
DecodeUnicodeEscape(s) ==
    LET backslashes == {i \in 1..Len(s) : s[i] = "\\"}
        span == [t \in backslashes |-> EscapeSpan(s, t)]
        taken == ScanStarts(backslashes, span)
    IN  IF \A t \in taken : WellFormedEscape(s, t)
        THEN Rewrite(s, taken, span, [t \in backslashes |-> EscapeValue(s, t)], 2)
        ELSE s

(***************************************************************************)
(* String literals of the source, and the URLs and page contents the       *)
(* stubbed HTTP layer serves                                               *)
(***************************************************************************)

\* Substrings try_facebook_fallback searches for and replaces
FbPat ==
    [ fb_watch |-> <<"f","b",".","w","a","t","c","h">>,
      facebook_com |-> <<"f","a","c","e","b","o","o","k",".","c","o","m">>,
      http |-> <<"h","t","t","p">>,
      fbcdn_net |-> <<"f","b","c","d","n",".","n","e","t">>,
      dot_mp4 |-> <<".","m","p","4">>,
      amp_entity |-> <<"&","a","m","p",";">>,
      amp |-> <<"&">>,
      esc_slash |-> <<"\\","/">>,
      slash |-> <<"/">> ]
\* Literals of get_video_info: the domain test, titles, error texts and the library's URL
Gvi ==
    [ facebook |-> <<"f","a","c","e","b","o","o","k">>,
      facebook_video |-> <<"F","a","c","e","b","o","o","k"," ","V","i","d","e","o">>,
      clip |-> <<"M","y"," ","c","l","i","p">>,
      parse |-> <<"E","R","R","O","R",":"," ","C","a","n","n","o","t"," ","p","a","r","s","e"," ","d","a","t","a">>,
      reset |-> <<"C","o","n","n","e","c","t","i","o","n"," ","r","e","s","e","t"," ","1","0","0","5","4">>,
      aborted_timeout |-> <<"C","o","n","n","e","c","t","i","o","n"," ","a","b","o","r","t","e","d",":"," ","T","h","e"," ","w","r","i","t","e"," ","o","p","e","r","a","t","i","o","n"," ","t","i","m","e","d"," ","o","u","t">>,
      lib |-> <<"h","t","t","p","s",":","/","/","c","d","n",".","e","x","a","m","p","l","e","/","f">> ]
\* Domains detect_platform tests for, besides the Facebook ones
DpPat ==
    [ youtube_com |-> <<"y","o","u","t","u","b","e",".","c","o","m">>,
      youtu_be |-> <<"y","o","u","t","u",".","b","e">>,
      instagram_com |-> <<"i","n","s","t","a","g","r","a","m",".","c","o","m">>,
      tiktok_com |-> <<"t","i","k","t","o","k",".","c","o","m">>,
      twitter_com |-> <<"t","w","i","t","t","e","r",".","c","o","m">>,
      x_com |-> <<"x",".","c","o","m">>,
      reddit_com |-> <<"r","e","d","d","i","t",".","c","o","m">>,
      vimeo_com |-> <<"v","i","m","e","o",".","c","o","m">> ]
\* URLs users send
Url ==
    [ youtube |-> <<"h","t","t","p","s",":","/","/","y","o","u","t","u","b","e",".","c","o","m","/","w">>,
      facebook |-> <<"h","t","t","p","s",":","/","/","w","w","w",".","f","a","c","e","b","o","o","k",".","c","o","m","/","v">>,
      fbwatch |-> <<"h","t","t","p","s",":","/","/","f","b",".","w","a","t","c","h","/","a">>,
      FBWATCH |-> <<"h","t","t","p","s",":","/","/","F","B",".","W","A","T","C","H","/","a">>,
      tiktok |-> <<"h","t","t","p","s",":","/","/","v","t",".","t","i","k","t","o","k",".","c","o","m","/","a">>,
      tiktok_fbuser |-> <<"h","t","t","p","s",":","/","/","t","i","k","t","o","k",".","c","o","m","/","@","f","a","c","e","b","o","o","k">>,
      youtube_tiktok |-> <<"h","t","t","p","s",":","/","/","y","o","u","t","u","b","e",".","c","o","m","/","w","?","r","=","t","i","k","t","o","k",".","c","o","m">>,
      other_fb |-> <<"h","t","t","p","s",":","/","/","e","x","a","m","p","l","e",".","o","r","g","/","f","a","c","e","b","o","o","k">>,
      vimeo |-> <<"h","t","t","p","s",":","/","/","v","i","m","e","o",".","c","o","m","/","1">> ]
\* URLs as they stand in the markup of a served page
Markup ==
    [ hd |-> <<"h","t","t","p","s",":","/","/","v",".","f","b","c","d","n",".","n","e","t","/","h","d">>,
      sd |-> <<"h","t","t","p","s",":","/","/","v",".","f","b","c","d","n",".","n","e","t","/","s","d">>,
      nohttp |-> <<"f","t","p",":","/","/","v",".","f","b","c","d","n",".","n","e","t","/","x">>,
      video_amp |-> <<"h","t","t","p","s",":","/","/","v",".","f","b","c","d","n",".","n","e","t","/","m","?","a","&","a","m","p",";","b">>,
      video_bad |-> <<"h","t","t","p","s",":","/","/","c","d","n",".","e","x","a","m","p","l","e","/","m">>,
      href |-> <<"h","t","t","p","s",":","/","/","c","d","n",".","e","x","a","m","p","l","e","/","m",".","m","p","4">>,
      re_hd |-> <<"h","t","t","p","s",":","\\","/","\\","/","v",".","f","b","c","d","n",".","n","e","t","\\","/","r">>,
      re_u |-> <<"h","t","t","p","s",":","\\","/","\\","/","w","w","w",".","f","a","c","e","b","o","o","k",".","c","o","m","\\","/","r","\\","u","0","0","2","6","x">>,
      re_bad |-> <<"h","t","t","p","s",":","\\","/","\\","/","c","d","n",".","e","x","a","m","p","l","e","\\","/","r">>,
      re_trunc |-> <<"h","t","t","p","s",":","\\","/","\\","/","v",".","f","b","c","d","n",".","n","e","t","\\","/","r","\\","u","0","0">>,
      js_hd |-> <<"h","t","t","p","s",":","/","/","v",".","f","b","c","d","n",".","n","e","t","/","j">>,
      js_nohttp |-> <<"/","/","v",".","f","b","c","d","n",".","n","e","t","/","j">> ]


\* Python's None where the value is a URL
None == <<>>

(***************************************************************************)
(* Stubbed collaborators of the fallback chain: the outcome of every       *)
(* network call the chain may make                                         *)
(***************************************************************************)

\* fdown_api: not installed, get_links raises, or the links it returns
T1Outcomes ==
    [kind : {"import_error", "raise"}, hd : {None}, sd : {None}]
    \cup [kind : {"links"}, hd : {None, Markup.nohttp, Markup.hd}, sd : {None, Markup.nohttp, Markup.sd}]

\* GET of the mbasic page: raises, or the first capture of each markup
\* pattern in the page (None: the pattern does not occur)
MbasicOutcomes ==
    [kind : {"raise"}, video : {None}, href : {None}]
    \cup [kind : {"html"}, video : {None, Markup.video_amp, Markup.video_bad}, href : {None, Markup.href}]

\* first capture of each of the seven tier-3 patterns, in list order
RegexPages ==
    { <<None, None, None, None, None, None, None>>,
      <<Markup.re_bad, None, None, None, None, None, None>>,
      <<Markup.re_bad, Markup.re_hd, None, None, None, Markup.re_u, None>>,
      <<None, None, Markup.re_trunc, None, None, None, None>>,
      <<None, None, None, None, None, Markup.re_u, None>> }

JAbsent == [present |-> FALSE, isStr |-> FALSE, val |-> None]
JStr(v) == [present |-> TRUE, isStr |-> TRUE, val |-> v]

\* the videoDeliveryLegacyFields object: not in the page, not parseable, or
\* its entries for the four field names in priority order
JsonOutcomes ==
    { [kind |-> "none", fields |-> <<JAbsent, JAbsent, JAbsent, JAbsent>>],
      [kind |-> "invalid", fields |-> <<JAbsent, JAbsent, JAbsent, JAbsent>>],
      [kind |-> "dict", fields |-> <<JAbsent, JAbsent, JAbsent, JAbsent>>],
      [kind |-> "dict", fields |-> <<[present |-> TRUE, isStr |-> FALSE, val |-> None],
                                 JStr(Markup.js_nohttp), JStr(Markup.js_hd), JAbsent>>],
      [kind |-> "dict", fields |-> <<JStr(Markup.js_hd), JAbsent, JAbsent, JAbsent>>] }

\* GET of the www page: raises, or the page's captures
WwwOutcomes ==
    { [kind |-> "raise", regex |-> <<None, None, None, None, None, None, None>>,
       json |-> [kind |-> "none", fields |-> <<JAbsent, JAbsent, JAbsent, JAbsent>>]] }
    \cup [kind : {"html"}, regex : RegexPages, json : JsonOutcomes]

ChainEnvs ==
    [redirect : {"ok", "raise"}, exc : {"timed out", ""},
     t1 : T1Outcomes, mbasic : MbasicOutcomes, www : WwwOutcomes]

(***************************************************************************)
(* MediaDownloader.try_facebook_html_fallback                              *)
(***************************************************************************)

\* the tier numbers; 0 is the redirect normalisation that precedes them
Tiers == 1..4

AllTiersFailedMsg == "Could not extract video using any method"

ChainStart(url, env) ==
    [pc |-> "redirect", url |-> url, env |-> env, trace |-> <<>>,
     html |-> "unset", video_url |-> None, error |-> "None"]

\* return video_url, None
ChainReturn(st, v) ==
    [st EXCEPT !.pc = "done", !.video_url = v, !.error = "None"]

\* ChainOuterExcept that returns no error message
ChainOuterExcept_NoMessage(st) ==
    [st EXCEPT !.pc = "done", !.video_url = None, !.error = "None"]

\* the outer `except Exception as e: return None, str(e)`
ChainOuterExcept(st) ==
    [st EXCEPT !.pc = "done", !.video_url = None, !.error = st.env.exc]

\* if 'fb.watch' in url: url = requests.head(url, allow_redirects=True).url
Redirect(st) ==
    IF IsSubstr(FbPat.fb_watch, st.url)
    THEN LET c == [st EXCEPT !.trace = Append(st.trace, 0)]
         IN  IF st.env.redirect = "raise"
             THEN ChainOuterExcept(c)
             ELSE [c EXCEPT !.pc = "t1", !.url = Url.facebook]
    ELSE [st EXCEPT !.pc = "t1"]

\* link and 'http' in link
Tier1Valid(link) ==
    link # None /\ IsSubstr(FbPat.http, link)

Tier1(st) ==
    LET c == [st EXCEPT !.trace = Append(st.trace, 1)]
        t == st.env.t1
    IN  IF t.kind \in {"import_error", "raise"}
        THEN [c EXCEPT !.pc = "t2"]
        ELSE IF Tier1Valid(t.hd) THEN ChainReturn(c, t.hd)
        ELSE IF Tier1Valid(t.sd) THEN ChainReturn(c, t.sd)
        ELSE [c EXCEPT !.pc = "t2"]

\* match.group(1).replace('&amp;', '&')
Tier2Clean(v) ==
    Replace(v, FbPat.amp_entity, FbPat.amp)

\* 'fbcdn.net' in video_url or '.mp4' in video_url
Tier2Valid(v) ==
    IsSubstr(FbPat.fbcdn_net, v) \/ IsSubstr(FbPat.dot_mp4, v)

\* for ... in ...: if match: ... if valid: return -- the index of the first
\* pattern whose capture matched and is valid after cleaning, 0 if the
\* loop ends; valid[i] says so of pattern i
FirstValid(valid) ==
    LET ok == {i \in 1..Len(valid) : valid[i]}
    IN  IF ok = {} THEN 0 ELSE CHOOSE i \in ok : \A j \in ok : i <= j

\* Tier2 without its return: a valid match is found and the chain goes on
Tier2_NoReturn(st) ==
    LET c == [st EXCEPT !.trace = Append(st.trace, 2)]
        m == st.env.mbasic
    IN  IF m.kind = "raise"
        THEN [c EXCEPT !.pc = "t3"]
        ELSE [c EXCEPT !.pc = "t3", !.html = "mbasic"]

Tier2(st) ==
    LET c == [st EXCEPT !.trace = Append(st.trace, 2)]
        m == st.env.mbasic
    IN  IF m.kind = "raise"
        THEN [c EXCEPT !.pc = "t3"]
        ELSE LET caps == <<m.video, m.href>>
                 i == FirstValid([k \in 1..Len(caps) |->
                                    caps[k] # None /\ Tier2Valid(Tier2Clean(caps[k]))])
             IN  IF i # 0
                 THEN ChainReturn([c EXCEPT !.html = "mbasic"], Tier2Clean(caps[i]))
                 ELSE [c EXCEPT !.pc = "t3", !.html = "mbasic"]

\* match.group(1).replace('\\/', '/') then the unicode_escape decoding
Tier3Clean(v) ==
    DecodeUnicodeEscape(Replace(v, FbPat.esc_slash, FbPat.slash))

\* 'http' in video_url and ('fbcdn.net' in video_url or 'facebook.com' in video_url)
Tier3Valid(v) ==
    IsSubstr(FbPat.http, v) /\ (IsSubstr(FbPat.fbcdn_net, v) \/ IsSubstr(FbPat.facebook_com, v))

\* the page fetch of tier 3 is outside any inner try: an exception goes to
\* the outer except
Tier3(st) ==
    LET c == [st EXCEPT !.trace = Append(st.trace, 3)]
        w == st.env.www
    IN  IF w.kind = "raise"
        THEN ChainOuterExcept(c)
        ELSE LET i == FirstValid([k \in 1..Len(w.regex) |->
                                    w.regex[k] # None /\ Tier3Valid(Tier3Clean(w.regex[k]))])
             IN  IF i # 0
                 THEN ChainReturn([c EXCEPT !.html = "www"], Tier3Clean(w.regex[i]))
                 ELSE [c EXCEPT !.pc = "t4", !.html = "www"]

\* searches the html fetched by tier 3
Tier4(st) ==
    LET c == [st EXCEPT !.trace = Append(st.trace, 4)]
        j == st.env.www.json
        ok == {i \in 1..Len(j.fields) : /\ j.fields[i].present
                                      /\ j.fields[i].isStr
                                      /\ IsSubstr(FbPat.http, j.fields[i].val)}
    IN  IF j.kind = "dict" /\ ok # {}
        THEN ChainReturn(c, j.fields[CHOOSE i \in ok : \A k \in ok : i <= k].val)
        ELSE [c EXCEPT !.pc = "done", !.video_url = None, !.error = AllTiersFailedMsg]

ChainStep(st) ==
    CASE st.pc = "redirect" -> Redirect(st)
      [] st.pc = "t1" -> Tier1(st)
      [] st.pc = "t2" -> Tier2(st)
      [] st.pc = "t3" -> Tier3(st)
      [] st.pc = "t4" -> Tier4(st)
      [] OTHER -> st

\* the steps taken until the call returns: the redirect and the four tiers
\* are five steps at the most, and a step of a finished call changes nothing
RunChain(st) ==
    ChainStep(ChainStep(ChainStep(ChainStep(ChainStep(st)))))

\* the call as a whole: the final state, whose video_url and error are the
\* returned pair
try_facebook_html_fallback(url, env) ==
    RunChain(ChainStart(url, env))

\* Literals of the file name button_callback builds
BcLit ==
    [ underscore |-> <<"_">>,
      dot |-> <<".">>,
      video |-> <<"v","i","d","e","o">>,
      mp4 |-> <<"m","p","4">>,
      long |-> <<"O","f","f","i","c","i","a","l"," ","M","u","s","i","c"," ","V","i","d","e","o"," ","-"," ","L","i","v","e"," ","a","t"," ","t","h","e"," ","R","o","y","a","l"," ","A","l","b","e","r","t"," ","H","a","l","l"," ","2","0","1","9">> ]
P_download ==
    <<"d","o","w","n","l","o","a","d">>
DOWNLOAD_DIR ==
    <<"d","o","w","n","l","o","a","d","s">>
\* The quality and format the two buttons of handle_url carry
HuOpt ==
    [ q1080p |-> <<"1","0","8","0","p">>,
      mp3 |-> <<"m","p","3">> ]

(***************************************************************************)
(* detect_platform and MediaDownloader.get_video_info                      *)
(***************************************************************************)

\* detect_platform with the TikTok test moved in front of the YouTube test
detect_platform_TikTokFirst(url) ==
    LET u == Lower(url)
    IN  IF IsSubstr(DpPat.tiktok_com, u) THEN "TikTok"
        ELSE IF IsSubstr(DpPat.youtube_com, u) \/ IsSubstr(DpPat.youtu_be, u) THEN "YouTube"
        ELSE IF IsSubstr(DpPat.instagram_com, u) THEN "Instagram"
        ELSE IF IsSubstr(FbPat.facebook_com, u) \/ IsSubstr(FbPat.fb_watch, u) THEN "Facebook"
        ELSE IF IsSubstr(DpPat.twitter_com, u) \/ IsSubstr(DpPat.x_com, u) THEN "Twitter/X"
        ELSE IF IsSubstr(DpPat.reddit_com, u) THEN "Reddit"
        ELSE IF IsSubstr(DpPat.vimeo_com, u) THEN "Vimeo"
        ELSE "Other"

\* detect_platform(url)
detect_platform(url) ==
    LET u == Lower(url)
    IN  IF IsSubstr(DpPat.youtube_com, u) \/ IsSubstr(DpPat.youtu_be, u) THEN "YouTube"
        ELSE IF IsSubstr(DpPat.instagram_com, u) THEN "Instagram"
        ELSE IF IsSubstr(DpPat.tiktok_com, u) THEN "TikTok"
        ELSE IF IsSubstr(FbPat.facebook_com, u) \/ IsSubstr(FbPat.fb_watch, u) THEN "Facebook"
        ELSE IF IsSubstr(DpPat.twitter_com, u) \/ IsSubstr(DpPat.x_com, u) THEN "Twitter/X"
        ELSE IF IsSubstr(DpPat.reddit_com, u) THEN "Reddit"
        ELSE IF IsSubstr(DpPat.vimeo_com, u) THEN "Vimeo"
        ELSE "Other"

\* MediaDownloader.get_base_options: the platform-specific block of
\* options it applies, "none" when it applies none
get_base_options(url) ==
    LET u == Lower(url)
    IN  IF IsSubstr(DpPat.tiktok_com, u) THEN "TikTok"
        ELSE IF IsSubstr(FbPat.facebook_com, u) \/ IsSubstr(FbPat.fb_watch, u) THEN "Facebook"
        ELSE IF IsSubstr(DpPat.instagram_com, u) THEN "Instagram"
        ELSE IF IsSubstr(DpPat.youtube_com, u) \/ IsSubstr(DpPat.youtu_be, u) THEN "YouTube"
        ELSE "none"

\* "facebook" in url.lower() or "fb.watch" in url.lower()
FallbackApplies(url) ==
    LET u == Lower(url)
    IN  IsSubstr(Gvi.facebook, u) \/ IsSubstr(FbPat.fb_watch, u)

\* outcomes of ydl.extract_info(url, download=False): the info dict, or an
\* exception with its text
LibTitles == {Gvi.clip, BcLit.long}
LibErrors == {Gvi.parse, Gvi.reset, Gvi.aborted_timeout}

LibOutcomes ==
    [raised : {FALSE}, msg : {None}, title : LibTitles]
    \cup [raised : {TRUE}, msg : LibErrors, title : {None}]

NoInfo ==
    [present |-> FALSE, url |-> None, title |-> None, direct_url |-> FALSE]

\* the dict returned by extract_info; its 'url' is a format URL and it has
\* no 'direct_url' key
LibInfo(lib) ==
    [present |-> TRUE, url |-> Gvi.lib, title |-> lib.title, direct_url |-> FALSE]

\* the minimal info dict synthesised from the chain's URL
FallbackInfo(video_url) ==
    [present |-> TRUE, url |-> video_url, title |-> Gvi.facebook_video, direct_url |-> TRUE]

\* the explanation chosen for a failed call on a URL the fallback does not
\* apply to: the first matching branch of the elif chain
ErrorExplanation(url, error_msg) ==
    LET e == Lower(error_msg)
        tt == IsSubstr(<<"t","i","k","t","o","k">>, Lower(url))
    IN  IF IsSubstr(<<"c","a","n","n","o","t"," ","p","a","r","s","e"," ","d","a","t","a">>, e) THEN "cannot_parse"
        ELSE IF tt /\ (IsSubstr(<<"t","i","m","e","o","u","t">>, e) \/ IsSubstr(<<"t","i","m","e","d"," ","o","u","t">>, e)) THEN "tiktok_timeout"
        ELSE IF tt /\ IsSubstr(<<"c","o","n","n","e","c","t","i","o","n">>, e)
                /\ (IsSubstr(<<"r","e","s","e","t">>, e) \/ IsSubstr(<<"a","b","o","r","t","e","d">>, e) \/ IsSubstr(<<"1","0","0","5","4">>, error_msg))
             THEN "tiktok_error_10054"
        ELSE IF tt /\ (IsSubstr(<<"r","e","d","i","r","e","c","t">>, e) \/ IsSubstr(<<"e","x","t","r","a","c","t">>, e)) THEN "tiktok_failed"
        ELSE IF IsSubstr(<<"i","n","a","p","p","r","o","p","r","i","a","t","e">>, e) \/ IsSubstr(<<"u","n","a","v","a","i","l","a","b","l","e"," ","f","o","r"," ","c","e","r","t","a","i","n"," ","a","u","d","i","e","n","c","e","s">>, e) THEN "age_restricted"
        ELSE IF IsSubstr(<<"p","r","i","v","a","t","e">>, e) THEN "private"
        ELSE IF IsSubstr(<<"l","o","g","i","n">>, e) \/ IsSubstr(<<"s","i","g","n"," ","i","n">>, e) THEN "login_required"
        ELSE IF IsSubstr(<<"n","o","t"," ","f","o","u","n","d">>, e) \/ IsSubstr(<<"4","0","4">>, error_msg) THEN "not_found"
        ELSE IF IsSubstr(<<"g","e","o">>, e) \/ IsSubstr(<<"r","e","g","i","o","n">>, e) THEN "geo_restricted"
        ELSE "generic_" \o detect_platform(url)

\* the explanation after the fallback chain failed too
FacebookExplanation(error_msg) ==
    IF IsSubstr(<<"c","a","n","n","o","t"," ","p","a","r","s","e"," ","d","a","t","a">>, Lower(error_msg)) \/ IsSubstr(<<"p","a","r","s","e">>, Lower(error_msg))
    THEN "facebook_cannot_parse"
    ELSE "facebook_failed"

\* get_video_info that runs the fallback chain on a Facebook URL first and
\* calls the extraction library only when the chain yields nothing
get_video_info_ChainFirst(url, lib, env) ==
    IF FallbackApplies(url)
    THEN LET c == try_facebook_html_fallback(url, env)
         IN  IF c.video_url # None
             THEN [info |-> FallbackInfo(c.video_url), error |-> "None",
                   libCalls |-> 0, chainCalls |-> 1, chain |-> c]
             ELSE IF ~lib.raised
             THEN [info |-> LibInfo(lib), error |-> "None", libCalls |-> 1,
                   chainCalls |-> 1, chain |-> c]
             ELSE [info |-> NoInfo, error |-> FacebookExplanation(lib.msg),
                   libCalls |-> 1, chainCalls |-> 1, chain |-> c]
    ELSE IF ~lib.raised
    THEN [info |-> LibInfo(lib), error |-> "None", libCalls |-> 1, chainCalls |-> 0,
          chain |-> ChainStart(url, env)]
    ELSE [info |-> NoInfo, error |-> ErrorExplanation(url, lib.msg),
          libCalls |-> 1, chainCalls |-> 0, chain |-> ChainStart(url, env)]

\* the result of one call: the returned pair (info, error), the number of
\* library info calls and of chain invocations it made, and the chain's
\* final state when it was invoked
get_video_info(url, lib, env) ==
    IF ~lib.raised
    THEN [info |-> LibInfo(lib), error |-> "None", libCalls |-> 1, chainCalls |-> 0,
          chain |-> ChainStart(url, env)]
    ELSE IF FallbackApplies(url)
         THEN LET c == try_facebook_html_fallback(url, env)
              IN  IF c.video_url # None
                  THEN [info |-> FallbackInfo(c.video_url), error |-> "None",
                        libCalls |-> 1, chainCalls |-> 1, chain |-> c]
                  ELSE [info |-> NoInfo, error |-> FacebookExplanation(lib.msg),
                        libCalls |-> 1, chainCalls |-> 1, chain |-> c]
         ELSE [info |-> NoInfo, error |-> ErrorExplanation(url, lib.msg),
               libCalls |-> 1, chainCalls |-> 0, chain |-> ChainStart(url, env)]

(***************************************************************************)
(* sanitize_filename, safe_join_path and the output path of                *)
(* button_callback                                                         *)
(***************************************************************************)

\* \w of the regular expression: letters, digits and the underscore
IsWordChar(c) ==
    \/ \E i \in 1..26 : UpperCase[i] = c \/ LowerCase[i] = c
    \/ c \in {"0","1","2","3","4","5","6","7","8","9"}
    \/ c = "_"

\* \s
IsSpaceChar(c) == c = " "

\* os.path.basename: what follows the last "/"
Basename(s) ==
    LET cut == {i \in 1..Len(s) : s[i] = "/"}
    IN  IF cut = {} THEN s
        ELSE SubSeq(s, (CHOOSE i \in cut : \A j \in cut : j <= i) + 1, Len(s))

\* re.sub(r'[^\w\s-]', '', filename)
KeepSafeChar(c) == IsWordChar(c) \/ IsSpaceChar(c) \/ c = "-"

\* re.sub(r'\s+', ' ', safe): every run of whitespace becomes one space
CollapseSpaces(s) ==
    LET runStarts == {i \in 1..Len(s) :
                        IsSpaceChar(s[i]) /\ (i = 1 \/ ~IsSpaceChar(s[i - 1]))}
        runLength == [i \in runStarts |->
                        (CHOOSE j \in i..(Len(s) + 1) :
                            /\ \A k \in i..(j - 1) : IsSpaceChar(s[k])
                            /\ (j = Len(s) + 1 \/ ~IsSpaceChar(s[j]))) - i]
    IN  Rewrite(s, runStarts, runLength, [i \in runStarts |-> <<" ">>], 1)

\* safe.strip(' .-')
Strip(s) ==
    LET keep == {i \in 1..Len(s) : s[i] \notin {" ", ".", "-"}}
    IN  IF keep = {} THEN <<>>
        ELSE SubSeq(s, CHOOSE i \in keep : \A j \in keep : i <= j,
                       CHOOSE i \in keep : \A j \in keep : j <= i)

\* the default max_length of sanitize_filename, also passed by button_callback
MaxNameLength == 50

sanitize_filename(filename, max_length) ==
    LET kept == SelectSeq(Basename(filename), KeepSafeChar)
        one == CollapseSpaces(kept)
        cut == SubSeq(one, 1, IF Len(one) < max_length THEN Len(one) ELSE max_length)
        safe == Strip(cut)
    IN  IF safe = <<>> THEN P_download ELSE safe

\* os.path.join(base_dir, sanitize_filename(filename)); the result always
\* lies under base_dir, so the ValueError branch is never taken
safe_join_path(base_dir, filename) ==
    base_dir \o FbPat.slash \o sanitize_filename(filename, MaxNameLength)

\* output_path.rsplit('.', 1)[0]
RSplitDotHead(s) ==
    LET dots == {i \in 1..Len(s) : s[i] = "."}
    IN  IF dots = {} THEN s
        ELSE SubSeq(s, 1, (CHOOSE i \in dots : \A j \in dots : j <= i) - 1)

\* context.user_data.get('title', 'video')
SessionTitle(title) ==
    IF title = None THEN BcLit.video ELSE title

\* the output_file of button_callback for the session's title, an action
\* and an option
OutputFile(title, action, option) ==
    LET safe_title == sanitize_filename(SessionTitle(title), MaxNameLength)
    IN  IF action = "video"
        THEN safe_join_path(DOWNLOAD_DIR, safe_title \o BcLit.underscore \o option \o BcLit.dot \o BcLit.mp4)
        ELSE safe_join_path(DOWNLOAD_DIR, safe_title \o BcLit.dot \o option)

(***************************************************************************)
(* MediaDownloader.download_video and download_audio                       *)
(***************************************************************************)

\* outcomes of the transfer itself (the streamed GET or the library's
\* download): it raises, it writes the file, or it returns without the
\* file being at the returned path
FetchOutcomes == {"raise", "written", "missing"}

\* download_video whose direct branch, when the fetch raises, goes on to the
\* extraction library instead of returning None
download_video_FallsThrough(url, quality, output_path, direct_url, outcome) ==
    IF direct_url # None /\ outcome # "raise"
    THEN LET p == IF EndsWith(output_path, BcLit.dot \o BcLit.mp4) THEN output_path
                  ELSE RSplitDotHead(output_path) \o BcLit.dot \o BcLit.mp4
         IN  [result |-> p, wrote |-> IF outcome = "written" THEN p ELSE None,
              fetched |-> direct_url, usedLib |-> FALSE]
    ELSE [result |-> None, wrote |-> None, fetched |-> url, usedLib |-> TRUE]

\* the result of a download: the returned path (None on failure), the file
\* it wrote, the URL the bytes were fetched from and whether the extraction
\* library's download path was used
download_video(url, quality, output_path, direct_url, outcome) ==
    IF direct_url # None
    THEN LET p == IF EndsWith(output_path, BcLit.dot \o BcLit.mp4) THEN output_path
                  ELSE RSplitDotHead(output_path) \o BcLit.dot \o BcLit.mp4
         IN  IF outcome = "raise"
             THEN [result |-> None, wrote |-> None, fetched |-> direct_url, usedLib |-> FALSE]
             ELSE [result |-> p, wrote |-> IF outcome = "written" THEN p ELSE None,
                   fetched |-> direct_url, usedLib |-> FALSE]
    ELSE IF outcome = "raise"
         THEN [result |-> None, wrote |-> None, fetched |-> url, usedLib |-> TRUE]
         ELSE [result |-> output_path,
               wrote |-> IF outcome = "written" THEN output_path ELSE None,
               fetched |-> url, usedLib |-> TRUE]

download_audio(url, audio_format, output_path, outcome) ==
    LET p == RSplitDotHead(output_path) \o BcLit.dot \o audio_format
    IN  IF outcome = "raise"
        THEN [result |-> None, wrote |-> None, fetched |-> url, usedLib |-> TRUE]
        ELSE [result |-> p, wrote |-> IF outcome = "written" THEN p ELSE None,
              fetched |-> url, usedLib |-> TRUE]

(***************************************************************************)
(* State                                                                   *)
(***************************************************************************)

VARIABLES
    cs,         \* try_facebook_html_fallback: the call being stepped through
    config,     \* config.MAX_FILE_SIZE and is_large_file_enabled(), fixed at start
    session,    \* context.user_data of the user
    pc,         \* where button_callback is suspended, "idle" between handlers
    req,        \* locals and effects of the request made since the last URL message
    fs,         \* the paths that exist in the download directory
    db,         \* Database statistics
    msg,        \* the last message shown to the user
    gvi,        \* the last call of get_video_info made by handle_url
    submitted,  \* a URL message arrived since the last request ended
    gi,         \* get_video_info: the call being made and its result
    started,    \* number of downloads started
    dp,         \* detect_platform: the URL it is called on and the tag returned
    user_requests,  \* rate_limiter.user_requests
    now,        \* datetime.now(), in ticks
    last,       \* the last text message or command handled, and how far it got
    answers,    \* what is_allowed answered each user: when "allowed", and its last answer
    db_data,    \* db.data of the module-level Database
    bot_data,   \* the contents of bot_data.json
    recorded,   \* every record_download call completed, in order
    keyboards   \* the messages carrying a quality / format keyboard, and the one pressed last

\* the state of the access gates, of the database and of the keyboards
extVars == <<dp, user_requests, now, last, answers, db_data, bot_data, recorded, keyboards>>
mainVars == <<config, session, pc, req, fs, db, msg, gvi, submitted, started, extVars>>
vars == <<cs, gi, config, session, pc, req, fs, db, msg, gvi, submitted, started, extVars>>

\* the fallback threshold of button_callback, in MiB
BOT_API_LIMIT == 50

\* values of config.MAX_FILE_SIZE in MiB: the one of config.example.py and
\* the 2 GB the help text promises with large file support
MaxFileSizes == {50, 2048}

Configs == [MAX_FILE_SIZE : MaxFileSizes, large_enabled : BOOLEAN]

\* os.path.getsize results, in MiB, around the threshold and the caps
Sizes ==
    {BOT_API_LIMIT - 1, BOT_API_LIMIT, BOT_API_LIMIT + 1}
    \cup UNION {{m, m + 1} : m \in MaxFileSizes}

\* number of downloads one behaviour starts
MaxRequests == 2

Urls ==
    {Url.youtube, Url.facebook, Url.fbwatch, Url.FBWATCH, Url.tiktok, Url.tiktok_fbuser,
     Url.youtube_tiktok, Url.other_fb, Url.vimeo}

\* the URLs the chain is stepped through on
ChainUrls == {Url.facebook, Url.fbwatch, Url.FBWATCH}

\* the chain outcomes get_video_info is run against: every tier succeeding
\* in its turn, all failing, and the two escaping exceptions
InfoEnvs ==
    [redirect : {"ok", "raise"}, exc : {"timed out"},
     t1 : {[kind |-> "import_error", hd |-> None, sd |-> None],
           [kind |-> "links", hd |-> None, sd |-> Markup.sd]},
     mbasic : {[kind |-> "raise", video |-> None, href |-> None],
               [kind |-> "html", video |-> Markup.video_amp, href |-> None]},
     www : {[kind |-> "raise", regex |-> <<None, None, None, None, None, None, None>>,
             json |-> [kind |-> "none", fields |-> <<JAbsent, JAbsent, JAbsent, JAbsent>>]]}
           \cup [kind : {"html"},
                 regex : {<<None, None, None, None, None, None, None>>,
                          <<None, None, None, None, None, Markup.re_u, None>>},
                 json : {[kind |-> "none", fields |-> <<JAbsent, JAbsent, JAbsent, JAbsent>>],
                         [kind |-> "dict",
                          fields |-> <<JStr(Markup.js_hd), JAbsent, JAbsent, JAbsent>>]}]]

\* the chain failing in every tier
EnvAllFail ==
    [redirect |-> "ok", exc |-> "timed out",
     t1 |-> [kind |-> "import_error", hd |-> None, sd |-> None],
     mbasic |-> [kind |-> "raise", video |-> None, href |-> None],
     www |-> [kind |-> "html", regex |-> <<None, None, None, None, None, None, None>>,
              json |-> [kind |-> "none", fields |-> <<JAbsent, JAbsent, JAbsent, JAbsent>>]]]

\* the messages, library outcomes and chain outcomes the handlers are run
\* against: the chain failing, tier 1 yielding, tier 3 yielding
HandlerLibs ==
    {[raised |-> FALSE, msg |-> None, title |-> Gvi.clip],
     [raised |-> FALSE, msg |-> None, title |-> BcLit.long],
     [raised |-> TRUE, msg |-> Gvi.parse, title |-> None]}

HandlerEnvs ==
    {EnvAllFail,
     [EnvAllFail EXCEPT !.t1 = [kind |-> "links", hd |-> None, sd |-> Markup.sd]],
     [EnvAllFail EXCEPT !.www.regex = <<None, None, None, None, None, Markup.re_u, None>>]}

\* callback data of the quality / format buttons, split at "_"
Datas ==
    {<<"video", HuOpt.q1080p>>, <<"audio", HuOpt.mp3>>}

\* callback data of the settings menus, split at "_": "settings_video_quality",
\* which opens the quality menu, and "set_quality_720p", a button of that
\* menu, which none of the prefix tests of button_callback takes
OtherDatas ==
    {<<"settings", "video", "quality">>, <<"set", "quality", "720p">>}

EmptySession ==
    [url |-> None, platform |-> "None", title |-> None, direct_url |-> None]

NoReq ==
    [action |-> "none", option |-> None, url |-> None, direct_url |-> None,
     output_file |-> None, result |-> None, wroteFile |-> FALSE, size |-> 0,
     fetched |-> None, usedLib |-> FALSE, transport |-> "none",
     stdCalls |-> 0, largeCalls |-> 0, recorded |-> 0, removeCalls |-> 0,
     removeFailed |-> FALSE, outcome |-> "none", data |-> <<>>]

NoCall ==
    [called |-> FALSE, url |-> None, raised |-> FALSE, libCalls |-> 0,
     chainCalls |-> 0, chainUrl |-> None, info |-> NoInfo, error |-> "None"]

EmptyDb ==
    [total_downloads |-> 0, video_downloads |-> 0, audio_downloads |-> 0,
     default_video_quality |-> "1080p"]

\* the chain at rest, while handlers are modelled
ChainIdle == [pc |-> "off"]

\* get_video_info at rest
InfoIdle == [pc |-> "off"]

\* no result yet
NoResult ==
    [info |-> NoInfo, error |-> "None", libCalls |-> 0, chainCalls |-> 0,
     chain |-> ChainStart(Url.facebook, EnvAllFail)]

(***************************************************************************)
(* Database (database.py): db.data as a record, the methods as operators   *)
(* from the data before to the data after; _save_data is the caller's      *)
(* assignment of the result to the file                                     *)
(***************************************************************************)

\* Telegram user IDs, and config.ADMIN_IDS among them
Users == {1, 2, 3, 4}

ADMIN_IDS == {1, 2}

\* is_admin(user_id)
is_admin(user_id) == user_id \in ADMIN_IDS

\* Database._create_empty_db
EmptyData ==
    [users |-> [k \in {} |-> 0],
     banned_users |-> <<>>,
     statistics |-> [total_downloads |-> 0, video_downloads |-> 0,
                     audio_downloads |-> 0, total_users |-> 0,
                     platform_stats |-> [k \in {} |-> 0]],
     download_history |-> <<>>]

\* the entries download_history keeps, 1000 in database.py
HistoryLimit == 2

\* Database.add_user counting a known user once more
add_user_CountsAgain(d, user_id) ==
    [d EXCEPT !.statistics.total_users = @ + 1,
              !.users = [k \in DOMAIN d.users \cup {user_id} |->
                           IF k \in DOMAIN d.users THEN d.users[k]
                           ELSE [total_downloads |-> 0, video_downloads |-> 0,
                                 audio_downloads |-> 0]]]

\* Database.add_user: a new record and one more user for an unknown ID,
\* the counters of a known user kept
add_user(d, user_id) ==
    IF user_id \in DOMAIN d.users
    THEN d
    ELSE [d EXCEPT !.statistics.total_users = @ + 1,
                   !.users = [k \in DOMAIN d.users \cup {user_id} |->
                                IF k = user_id
                                THEN [total_downloads |-> 0, video_downloads |-> 0,
                                      audio_downloads |-> 0]
                                ELSE d.users[k]]]

\* Database.ban_user
ban_user(d, user_id) ==
    IF \E i \in 1..Len(d.banned_users) : d.banned_users[i] = user_id
    THEN d
    ELSE [d EXCEPT !.banned_users = Append(@, user_id)]

\* Database.is_banned
is_banned(d, user_id) ==
    \E i \in 1..Len(d.banned_users) : d.banned_users[i] = user_id

\* Database.unban_user: list.remove takes out the first occurrence
unban_user(d, user_id) ==
    IF is_banned(d, user_id)
    THEN LET i == CHOOSE j \in 1..Len(d.banned_users) :
                     /\ d.banned_users[j] = user_id
                     /\ \A k \in 1..(j - 1) : d.banned_users[k] # user_id
         IN  [d EXCEPT !.banned_users =
                 SubSeq(@, 1, i - 1) \o SubSeq(@, i + 1, Len(@))]
    ELSE d

\* Database.record_download with the history never cut
Database_record_download_NoCut(d, user_id, download_type, platform, timestamp) ==
    [d EXCEPT !.download_history =
                 Append(@, [user_id |-> user_id, type |-> download_type,
                            platform |-> platform, timestamp |-> timestamp])]

\* Database.record_download on the whole of db.data: the global counters,
\* the platform counter, the counters of a known user, the history
Database_record_download(d, user_id, download_type, platform, timestamp) ==
    [d EXCEPT
        !.statistics.total_downloads = @ + 1,
        !.statistics.video_downloads = IF download_type = "video" THEN @ + 1 ELSE @,
        !.statistics.audio_downloads = IF download_type = "audio" THEN @ + 1 ELSE @,
        !.statistics.platform_stats =
            [k \in DOMAIN @ \cup {platform} |->
                IF k = platform
                THEN (IF platform \in DOMAIN @ THEN @[platform] ELSE 0) + 1
                ELSE @[k]],
        !.users =
            [k \in DOMAIN @ |->
                IF k = user_id
                THEN [@[k] EXCEPT
                        !.total_downloads = @ + 1,
                        !.video_downloads = IF download_type = "video" THEN @ + 1 ELSE @,
                        !.audio_downloads = IF download_type = "audio" THEN @ + 1 ELSE @]
                ELSE @[k]],
        !.download_history =
            LET h == Append(@, [user_id |-> user_id, type |-> download_type,
                                platform |-> platform, timestamp |-> timestamp])
            IN  IF Len(h) > HistoryLimit
                THEN SubSeq(h, Len(h) - HistoryLimit + 1, Len(h))
                ELSE h]

\* Database.clear_user_history
clear_user_history(d, user_id) ==
    [d EXCEPT !.download_history = SelectSeq(@, LAMBDA e : e.user_id # user_id)]

\* no text message and no command handled yet; prev is the answer is_allowed
\* gave the user before, none so far
NoMessage ==
    [kind |-> "none", n |-> 0, user |-> 0, text |-> <<>>, stage |-> "none",
     consulted |-> FALSE, allowed |-> FALSE, wait |-> 0,
     prev |-> [made |-> FALSE, allowed |-> FALSE, at |-> 0, wait |-> 0], at |-> 0,
     extracted |-> FALSE, platform |-> "None", target |-> 0, before |-> <<>>]

\* detect_platform, the rate limiter, the access gates, the database and
\* the keyboards at rest
ExtIdle ==
    /\ dp = [pc |-> "off"]
    /\ user_requests = [u \in Users |-> <<>>]
    /\ now = 0
    /\ last = NoMessage
    /\ answers = [u \in Users |-> [allowed_at |-> <<>>, last |-> NoMessage.prev]]
    /\ db_data = EmptyData
    /\ bot_data = EmptyData
    /\ recorded = <<>>
    /\ keyboards = [shown |-> {}, pressed |-> EmptySession]

MainIdle ==
    /\ config = [MAX_FILE_SIZE |-> 50, large_enabled |-> FALSE]
    /\ session = EmptySession
    /\ pc = "off"
    /\ req = NoReq
    /\ fs = {}
    /\ db = EmptyDb
    /\ msg = "None"
    /\ gvi = NoCall
    /\ submitted = FALSE
    /\ started = 0
    /\ ExtIdle

(***************************************************************************)
(* The fallback chain, one tier at a time                                  *)
(***************************************************************************)

ChainInit ==
    /\ cs \in {ChainStart(u, e) : u \in ChainUrls, e \in ChainEnvs}
    /\ gi = InfoIdle
    /\ MainIdle

ChainRedirect ==
    /\ cs.pc = "redirect"
    /\ cs' = Redirect(cs)
    /\ UNCHANGED <<gi, mainVars>>

ChainTier1 ==
    /\ cs.pc = "t1"
    /\ cs' = Tier1(cs)
    /\ UNCHANGED <<gi, mainVars>>

ChainTier2 ==
    /\ cs.pc = "t2"
    /\ cs' = Tier2(cs)
    /\ UNCHANGED <<gi, mainVars>>

ChainTier3 ==
    /\ cs.pc = "t3"
    /\ cs' = Tier3(cs)
    /\ UNCHANGED <<gi, mainVars>>

ChainTier4 ==
    /\ cs.pc = "t4"
    /\ cs' = Tier4(cs)
    /\ UNCHANGED <<gi, mainVars>>

ChainNext ==
    \/ ChainRedirect
    \/ ChainTier1
    \/ ChainTier2
    \/ ChainTier3
    \/ ChainTier4

SpecChain == ChainInit /\ [][ChainNext]_vars

(***************************************************************************)
(* get_video_info on every URL, library outcome and chain outcome          *)
(***************************************************************************)

InfoInit ==
    /\ cs = ChainIdle
    /\ gi \in [pc : {"call"}, url : Urls, lib : LibOutcomes, env : InfoEnvs,
               options : {"unset"}, result : {NoResult}]
    /\ MainIdle

GetVideoInfo ==
    /\ gi.pc = "call"
    /\ gi' = [gi EXCEPT !.pc = "done",
                        !.options = get_base_options(gi.url),
                        !.result = get_video_info(gi.url, gi.lib, gi.env)]
    /\ UNCHANGED <<cs, mainVars>>

InfoNext == GetVideoInfo

SpecInfo == InfoInit /\ [][InfoNext]_vars

(***************************************************************************)
(* detect_platform on URLs naming one or two domains                       *)
(***************************************************************************)

\* "https://<a>/<b>" for every two of the domains (every pattern
\* detect_platform tests, and one it does not), and the URLs of the other
\* specifications, an upper-case one among them
PlatformUrls ==
    Urls \cup {FbPat.http \o <<"s",":","/","/">> \o a \o FbPat.slash \o b :
                 a, b \in {DpPat.youtube_com, DpPat.youtu_be, DpPat.instagram_com,
                           DpPat.tiktok_com, FbPat.facebook_com, FbPat.fb_watch,
                           DpPat.twitter_com, DpPat.x_com, DpPat.reddit_com,
                           DpPat.vimeo_com,
                           <<"e","x","a","m","p","l","e",".","o","r","g">>}}

\* every handler, and every function stepped on its own, at rest
IdleInit ==
    /\ cs = ChainIdle
    /\ gi = InfoIdle
    /\ MainIdle

\* detect_platform(url)
DetectPlatform(url) ==
    /\ dp.pc = "off"
    /\ dp' = [pc |-> "called", url |-> url, platform |-> detect_platform(url),
              again |-> "unset"]
    /\ UNCHANGED <<cs, gi, config, session, pc, req, fs, db, msg, gvi, submitted, started,
                   user_requests, now, last, answers, db_data, bot_data, recorded,
                   keyboards>>

\* detect_platform called once more on the same URL
DetectPlatformAgain ==
    /\ dp.pc = "called"
    /\ dp' = [dp EXCEPT !.pc = "done", !.again = detect_platform(dp.url)]
    /\ UNCHANGED <<cs, gi, config, session, pc, req, fs, db, msg, gvi, submitted, started,
                   user_requests, now, last, answers, db_data, bot_data, recorded,
                   keyboards>>

PlatformNext ==
    \/ \E url \in PlatformUrls : DetectPlatform(url)
    \/ DetectPlatformAgain

SpecPlatform == IdleInit /\ [][PlatformNext]_vars

(***************************************************************************)
(* The gates of handle_url: track_user, check_ban, the rate limiter,       *)
(* is_url and validate_url; /ban and /unban                                *)
(***************************************************************************)

\* one second of datetime.now() in ticks of the model's clock
TicksPerSecond == 2

\* timedelta(minutes=1), in seconds
WindowSeconds == 1 * 60

\* config.RATE_LIMIT_REQUESTS, the requests_per_minute of rate_limiter
RATE_LIMIT_REQUESTS == 2

\* number of text messages one behaviour handles
MaxMessages == 3

\* RateLimiter.is_allowed with one request list for all users
is_allowed_Shared(reqs, user_id, t) ==
    LET cutoff == t - WindowSeconds * TicksPerSecond
        kept == SelectSeq(reqs[3], LAMBDA ts : ts > cutoff)
    IN  IF Len(kept) >= RATE_LIMIT_REQUESTS
        THEN [user_requests |-> [u \in DOMAIN reqs |-> kept], allowed |-> FALSE, wait |-> 1]
        ELSE [user_requests |-> [u \in DOMAIN reqs |-> Append(kept, t)],
              allowed |-> TRUE, wait |-> 0]

\* RateLimiter.is_allowed at time t: the request lists after the call,
\* the answer, and wait_seconds (0 for None)
is_allowed(reqs, user_id, t) ==
    LET cutoff == t - WindowSeconds * TicksPerSecond
        kept == SelectSeq(reqs[user_id], LAMBDA ts : ts > cutoff)
    IN  IF Len(kept) >= RATE_LIMIT_REQUESTS
        THEN [user_requests |-> [reqs EXCEPT ![user_id] = kept],
              allowed |-> FALSE,
              wait |-> \* max(int((oldest - cutoff).total_seconds()), 1)
                 LET oldest == CHOOSE m \in {kept[i] : i \in 1..Len(kept)} :
                                  \A i \in 1..Len(kept) : m <= kept[i]
                     wait_seconds == (oldest - cutoff) \div TicksPerSecond
                 IN  IF wait_seconds > 1 THEN wait_seconds ELSE 1]
        ELSE [user_requests |-> [reqs EXCEPT ![user_id] = Append(kept, t)],
              allowed |-> TRUE,
              wait |-> 0]

\* is_url: the pattern http[s]?://(...)+ found somewhere in the text; the
\* class is the letters, the digits, the range from "$" to "_", and "!"
is_url(text) ==
    \E i \in 1..Len(text) :
       \E k \in {i + 4, i + 5} :
          /\ k + 3 <= Len(text)
          /\ SubSeq(text, i, i + 3) = FbPat.http
          /\ k = i + 5 => text[i + 4] = "s"
          /\ SubSeq(text, k, k + 2) = <<":","/","/">>
          /\ \/ IsWordChar(text[k + 3])
             \/ text[k + 3] \in {"$", "%", "&", "'", "(", ")", "*", "+", ",", "-", ".",
                                 "/", ":", ";", "<", "=", ">", "?", "@", "[", "\\", "]",
                                 "^", "!"}

\* urlparse(url): the scheme, and the hostname (None when there is none)
urlparse(url) ==
    LET colons == {i \in 1..Len(url) : url[i] = ":"}
        colon == IF colons = {} THEN 0 ELSE CHOOSE i \in colons : \A j \in colons : i <= j
        hasScheme == /\ colon > 1
                     /\ \A i \in 1..(colon - 1) :
                           \/ (IsWordChar(url[i]) /\ url[i] # "_")
                           \/ url[i] \in {"+", "-", "."}
        rest == IF hasScheme THEN SubSeq(url, colon + 1, Len(url)) ELSE url
        ends == {i \in 3..Len(rest) : rest[i] \in {"/", "?", "#"}}
        netloc == IF Len(rest) >= 2 /\ SubSeq(rest, 1, 2) = <<"/","/">>
                  THEN SubSeq(rest, 3, IF ends = {} THEN Len(rest)
                                       ELSE (CHOOSE i \in ends : \A j \in ends : i <= j) - 1)
                  ELSE <<>>
        ats == {i \in 1..Len(netloc) : netloc[i] = "@"}
        hostport == IF ats = {} THEN netloc
                    ELSE SubSeq(netloc, (CHOOSE i \in ats : \A j \in ats : j <= i) + 1,
                                Len(netloc))
        ports == {i \in 1..Len(hostport) : hostport[i] = ":"}
        host == IF ports = {} THEN hostport
                ELSE SubSeq(hostport, 1, (CHOOSE i \in ports : \A j \in ports : i <= j) - 1)
    IN  [scheme |-> IF hasScheme THEN Lower(SubSeq(url, 1, colon - 1)) ELSE <<>>,
         hostname |-> Lower(host)]

\* blocked_patterns of validate_url
BlockedPatterns ==
    {<<"l","o","c","a","l","h","o","s","t">>, <<"1","2","7",".","0",".","0",".","1">>,
     <<"0",".","0",".","0",".","0">>, <<"1","0",".">>, <<"1","7","2",".","1","6",".">>,
     <<"1","7","2",".","1","7",".">>, <<"1","7","2",".","1","8",".">>,
     <<"1","7","2",".","1","9",".">>, <<"1","7","2",".","2","0",".">>,
     <<"1","7","2",".","2","1",".">>, <<"1","7","2",".","2","2",".">>,
     <<"1","7","2",".","2","3",".">>, <<"1","7","2",".","2","4",".">>,
     <<"1","7","2",".","2","5",".">>, <<"1","7","2",".","2","6",".">>,
     <<"1","7","2",".","2","7",".">>, <<"1","7","2",".","2","8",".">>,
     <<"1","7","2",".","2","9",".">>, <<"1","7","2",".","3","0",".">>,
     <<"1","7","2",".","3","1",".">>, <<"1","9","2",".","1","6","8",".">>,
     <<"1","6","9",".","2","5","4",".">>,
     <<"m","e","t","a","d","a","t","a",".","g","o","o","g","l","e",".","i","n","t","e","r","n","a","l">>,
     <<"m","e","t","a","d","a","t","a",".","g","o","o","g">>,
     <<"m","e","t","a","d","a","t","a">>, <<":",":","1">>, <<"f","c","0","0",":">>,
     <<"f","d","0","0",":">>}

\* validate_url: the scheme is http or https, there is a hostname, and no
\* blocked pattern occurs in it; the whitelist only logs
validate_url(url) ==
    \E parsed \in {urlparse(url)} :
       /\ parsed.scheme \in {FbPat.http, FbPat.http \o <<"s">>}
       /\ parsed.hostname # None
       /\ \A blocked \in BlockedPatterns : ~IsSubstr(blocked, parsed.hostname)

\* the texts sent to the bot: no URL in it, a URL after a word (urlparse
\* finds no scheme), a URL of this host, a public URL, a public URL
\* between spaces
Texts ==
    {<<"h","e","l","l","o">>,
     <<"w","a","t","c","h"," ","h","t","t","p","s",":","/","/","y","o","u","t","u","b","e",".","c","o","m","/","w">>,
     <<"h","t","t","p",":","/","/","l","o","c","a","l","h","o","s","t","/","x">>,
     <<"h","t","t","p","s",":","/","/","v","i","m","e","o",".","c","o","m","/","1">>,
     <<" "," ","h","t","t","p","s",":","/","/","y","o","u","t","u",".","b","e","/","w"," ">>}

\* handle_url from the strip of the text to the call of get_video_info:
\* the gate that ends the handler ("extraction" when none does) and the
\* platform announced
url_gates(text) ==
    LET inner == {i \in 1..Len(text) : text[i] # " "}
        url == IF inner = {} THEN <<>>
               ELSE SubSeq(text, CHOOSE i \in inner : \A j \in inner : i <= j,
                                 CHOOSE i \in inner : \A j \in inner : j <= i)
        stage == IF ~is_url(url) THEN "not_url"
                 ELSE IF ~validate_url(url) THEN "unsafe_url"
                 ELSE "extraction"
    IN  [stage |-> stage,
         platform |-> IF stage = "extraction" THEN detect_platform(url) ELSE "None"]

\* url_gates evaluated once on each text, and the lookup of a result
UrlGates == {<<text, url_gates(text)>> : text \in Texts}

UrlGatesOn(text) == (CHOOSE p \in UrlGates : p[1] = text)[2]

\* handle_url_gates with the rate limit consulted before the ban check
handle_url_gates_LimitFirst(d, reqs, t, user_id, g) ==
    [db_data |-> add_user(d, user_id),
     user_requests |-> is_allowed(reqs, user_id, t).user_requests,
     consulted |-> TRUE,
     allowed |-> is_allowed(reqs, user_id, t).allowed,
     wait |-> is_allowed(reqs, user_id, t).wait,
     stage |-> IF ~is_allowed(reqs, user_id, t).allowed THEN "rate_limited"
               ELSE IF is_banned(d, user_id) THEN "banned" ELSE g.stage,
     platform |-> "None"]

\* handle_url up to the call of get_video_info, for a message arriving at
\* time t whose text passes the URL gates as g: the database and the
\* request lists afterwards, whether the rate limiter was consulted and
\* its answer, the gate that ended the handler, the platform announced
handle_url_gates(d, reqs, t, user_id, g) ==
    LET consulted == ~is_banned(d, user_id) /\ ~is_admin(user_id)
        r == IF consulted THEN is_allowed(reqs, user_id, t)
             ELSE [user_requests |-> reqs, allowed |-> TRUE, wait |-> 0]
        stage == IF is_banned(d, user_id) THEN "banned"
                 ELSE IF ~r.allowed THEN "rate_limited"
                 ELSE g.stage
    IN  [db_data |-> add_user(d, user_id), user_requests |-> r.user_requests,
         consulted |-> consulted, allowed |-> r.allowed, wait |-> r.wait,
         stage |-> stage,
         platform |-> IF stage = "extraction" THEN g.platform ELSE "None"]

\* what is_allowed answered: the time of an "allowed" kept, the last answer
Answered(a, user_id, t, allowed, wait) ==
    [a EXCEPT ![user_id].allowed_at = IF allowed THEN Append(@, t) ELSE @,
              ![user_id].last = [made |-> TRUE, allowed |-> allowed, at |-> t,
                                 wait |-> wait]]

\* a text message of a user, delay ticks after the last one
TextMessage(user_id, text, delay) ==
    /\ last.n < MaxMessages
    /\ now' = now + delay
    /\ \E h \in {handle_url_gates(db_data, user_requests, now + delay, user_id,
                                  UrlGatesOn(text))} :
          /\ db_data' = h.db_data
          /\ bot_data' = h.db_data
          /\ user_requests' = h.user_requests
          /\ answers' = IF h.consulted
                        THEN Answered(answers, user_id, now + delay, h.allowed, h.wait)
                        ELSE answers
          /\ last' = [NoMessage EXCEPT
                        !.kind = "text", !.n = last.n + 1, !.user = user_id, !.text = text,
                        !.stage = h.stage, !.consulted = h.consulted,
                        !.allowed = h.allowed, !.wait = h.wait,
                        !.prev = answers[user_id].last, !.at = now + delay,
                        !.extracted = (h.stage = "extraction"),
                        !.platform = h.platform,
                        !.before = db_data.banned_users]
    /\ UNCHANGED <<cs, gi, config, session, pc, req, fs, db, msg, gvi, submitted, started,
                   dp, recorded, keyboards>>

\* ban_user_command without the test for another admin
ban_user_command_OnlySelf(d, issuer, arg) ==
    IF ~is_admin(issuer) \/ arg <= 0 \/ arg = issuer THEN d ELSE ban_user(d, arg)

\* ban_user_command behind require_admin: the database afterwards
ban_user_command(d, issuer, arg) ==
    IF ~is_admin(issuer) THEN d
    ELSE IF arg <= 0 THEN d
    ELSE IF arg = issuer THEN d
    ELSE IF is_admin(arg) THEN d
    ELSE ban_user(d, arg)

\* unban_user_command behind require_admin: the database afterwards
unban_user_command(d, issuer, arg) ==
    IF ~is_admin(issuer) THEN d
    ELSE IF arg <= 0 THEN d
    ELSE IF ~is_banned(d, arg) THEN d
    ELSE unban_user(d, arg)

\* /ban <arg> sent by a user
BanCommand(issuer, arg) ==
    /\ db_data' = ban_user_command(db_data, issuer, arg)
    /\ bot_data' = IF db_data' # db_data THEN db_data' ELSE bot_data
    /\ last' = [NoMessage EXCEPT !.kind = "ban", !.n = last.n, !.user = issuer,
                                 !.target = arg, !.before = db_data.banned_users]
    /\ UNCHANGED <<cs, gi, config, session, pc, req, fs, db, msg, gvi, submitted, started,
                   dp, user_requests, now, answers, recorded, keyboards>>

\* /unban <arg> sent by a user
UnbanCommand(issuer, arg) ==
    /\ db_data' = unban_user_command(db_data, issuer, arg)
    /\ bot_data' = IF db_data' # db_data THEN db_data' ELSE bot_data
    /\ last' = [NoMessage EXCEPT !.kind = "unban", !.n = last.n, !.user = issuer,
                                 !.target = arg, !.before = db_data.banned_users]
    /\ UNCHANGED <<cs, gi, config, session, pc, req, fs, db, msg, gvi, submitted, started,
                   dp, user_requests, now, answers, recorded, keyboards>>

\* text messages of an admin and the two other users, arriving together or
\* a whole window apart, and the admin banning and unbanning the senders
AccessNext ==
    \/ \E user_id \in Users \ {2}, text \in Texts,
          delay \in {0, WindowSeconds * TicksPerSecond} :
          TextMessage(user_id, text, delay)
    \/ \E arg \in Users \ {2} : BanCommand(1, arg)
    \/ \E arg \in Users \ {2} : UnbanCommand(1, arg)

SpecAccess == IdleInit /\ [][AccessNext]_vars

(***************************************************************************)
(* /ban and /unban from every user, with every argument                    *)
(***************************************************************************)

\* the argument of /ban and /unban is a user ID, or 0, which validate_user_id
\* rejects
BanNext ==
    \/ \E issuer \in Users, arg \in Users \cup {0} : BanCommand(issuer, arg)
    \/ \E issuer \in Users, arg \in Users \cup {0} : UnbanCommand(issuer, arg)

SpecBan == IdleInit /\ [][BanNext]_vars

(***************************************************************************)
(* RateLimiter.is_allowed called at non-decreasing times                   *)
(***************************************************************************)

\* number of is_allowed calls one behaviour makes
MaxCalls == 4

\* the time between two calls: none, one tick, the whole window, or what
\* brings a user to the end of the wait is_allowed last told them
Delays ==
    {0, 1, WindowSeconds * TicksPerSecond}
    \cup {answers[u].last.at + answers[u].last.wait * TicksPerSecond - now :
            u \in {v \in Users : /\ answers[v].last.made
                                 /\ ~answers[v].last.allowed
                                 /\ answers[v].last.at
                                      + answers[v].last.wait * TicksPerSecond >= now}}

\* rate_limiter.is_allowed(user_id), delay ticks after the last call
IsAllowed(user_id, delay) ==
    /\ last.n < MaxCalls
    /\ now' = now + delay
    /\ \E r \in {is_allowed(user_requests, user_id, now + delay)} :
          /\ user_requests' = r.user_requests
          /\ answers' = Answered(answers, user_id, now + delay, r.allowed, r.wait)
          /\ last' = [NoMessage EXCEPT
                        !.kind = "call", !.n = last.n + 1, !.user = user_id,
                        !.consulted = TRUE, !.allowed = r.allowed, !.wait = r.wait,
                        !.prev = answers[user_id].last, !.at = now + delay]
    /\ UNCHANGED <<cs, gi, config, session, pc, req, fs, db, msg, gvi, submitted, started,
                   dp, db_data, bot_data, recorded, keyboards>>

LimiterNext ==
    \E user_id \in Users \ ADMIN_IDS, delay \in Delays : IsAllowed(user_id, delay)

SpecLimiter == IdleInit /\ [][LimiterNext]_vars

(***************************************************************************)
(* The database under track_user, the two delivery paths and the history   *)
(* menu                                                                    *)
(***************************************************************************)

\* number of record_download calls one behaviour makes
MaxRecords == 4

\* track_user: db.add_user, which saves
TrackUser(user_id) ==
    /\ db_data' = add_user(db_data, user_id)
    /\ bot_data' = db_data'
    /\ UNCHANGED <<cs, gi, config, session, pc, req, fs, db, msg, gvi, submitted, started,
                   dp, user_requests, now, last, answers, recorded, keyboards>>

\* a delivery of button_callback: db.record_download on the module-level
\* Database, which saves; the timestamp is the number of the call
RecordDownload(user_id, download_type, platform) ==
    /\ Len(recorded) < MaxRecords
    /\ db_data' = Database_record_download(db_data, user_id, download_type, platform,
                                           Len(recorded) + 1)
    /\ bot_data' = db_data'
    /\ recorded' = Append(recorded, [user_id |-> user_id, type |-> download_type,
                                     platform |-> platform,
                                     timestamp |-> Len(recorded) + 1,
                                     via |-> "db", cleared |-> FALSE])
    /\ UNCHANGED <<cs, gi, config, session, pc, req, fs, db, msg, gvi, submitted, started,
                   dp, user_requests, now, last, answers, keyboards>>

\* a delivery of handle_search_callback: Database() loads the file,
\* record_download updates and saves what was loaded, and the module-level
\* Database is not told
SearchRecordDownload(user_id) ==
    /\ Len(recorded) < MaxRecords
    /\ bot_data' = Database_record_download(bot_data, user_id, "audio", "youtube_search",
                                            Len(recorded) + 1)
    /\ recorded' = Append(recorded, [user_id |-> user_id, type |-> "audio",
                                     platform |-> "youtube_search",
                                     timestamp |-> Len(recorded) + 1,
                                     via |-> "search", cleared |-> FALSE])
    /\ UNCHANGED <<cs, gi, config, session, pc, req, fs, db, msg, gvi, submitted, started,
                   dp, user_requests, now, last, answers, db_data, keyboards>>

\* the history menu's clear button: db.clear_user_history, which saves
ClearUserHistory(user_id) ==
    /\ db_data' = clear_user_history(db_data, user_id)
    /\ bot_data' = db_data'
    /\ recorded' = [i \in 1..Len(recorded) |->
                      IF recorded[i].user_id = user_id /\ recorded[i].via = "db"
                      THEN [recorded[i] EXCEPT !.cleared = TRUE]
                      ELSE recorded[i]]
    /\ UNCHANGED <<cs, gi, config, session, pc, req, fs, db, msg, gvi, submitted, started,
                   dp, user_requests, now, last, answers, keyboards>>

StoreNext ==
    \/ \E user_id \in {3, 4} : TrackUser(user_id)
    \/ \E d \in {<<3, "video", "YouTube">>, <<3, "audio", "YouTube">>,
                 <<4, "video", "TikTok">>, <<4, "audio", "YouTube">>} :
          RecordDownload(d[1], d[2], d[3])
    \/ \E user_id \in {3} : SearchRecordDownload(user_id)
    \/ \E user_id \in {3, 4} : ClearUserHistory(user_id)

SpecStore == IdleInit /\ [][StoreNext]_vars

(***************************************************************************)
(* Properties of the fallback chain                                        *)
(***************************************************************************)

\* what the stub of tier k holds: the URL tier k yields when it runs, None
\* when it yields no URL that passes its validity check
StubYield(k, env) ==
    CASE k = 1 ->
            IF env.t1.kind # "links" THEN None
            ELSE IF Tier1Valid(env.t1.hd) THEN env.t1.hd
            ELSE IF Tier1Valid(env.t1.sd) THEN env.t1.sd
            ELSE None
      [] k = 2 ->
            IF env.mbasic.kind # "html" THEN None
            ELSE IF env.mbasic.video # None /\ Tier2Valid(Tier2Clean(env.mbasic.video))
                 THEN Tier2Clean(env.mbasic.video)
            ELSE IF env.mbasic.href # None /\ Tier2Valid(Tier2Clean(env.mbasic.href))
                 THEN Tier2Clean(env.mbasic.href)
            ELSE None
      [] k = 3 ->
            IF env.www.kind # "html" THEN None
            ELSE LET good == {i \in 1..7 : env.www.regex[i] # None
                                            /\ Tier3Valid(Tier3Clean(env.www.regex[i]))}
                 IN  IF good = {} THEN None
                     ELSE Tier3Clean(env.www.regex[CHOOSE i \in good : \A j \in good : i <= j])
      [] k = 4 ->
            IF env.www.kind # "html" \/ env.www.json.kind # "dict" THEN None
            ELSE LET good == {i \in 1..4 : env.www.json.fields[i].present
                                            /\ env.www.json.fields[i].isStr
                                            /\ IsSubstr(FbPat.http, env.www.json.fields[i].val)}
                 IN  IF good = {} THEN None
                     ELSE env.www.json.fields[CHOOSE i \in good : \A j \in good : i <= j].val

\* the tiers (and the redirect step 0) the call has attempted so far
Attempted(c) == {c.trace[i] : i \in 1..Len(c.trace)}

\* the stub of tier k raises inside tier k
StubRaises(k, env) ==
    CASE k = 1 -> env.t1.kind \in {"import_error", "raise"}
      [] k = 2 -> env.mbasic.kind = "raise"
      [] k = 3 -> env.www.kind = "raise"
      [] k = 4 -> env.www.kind = "html" /\ env.www.json.kind = "invalid"

\* C1: the tiers are attempted in the order 1, 2, 3, 4, each at most once;
\* when the call has reached the tiers and finished, and tier k is the first
\* whose stub yields a valid URL, the call returns exactly that URL with a
\* null error and has done no work of a tier after k.
C1_TierOrder ==
    /\ \A i, j \in 1..Len(cs.trace) : i < j => cs.trace[i] < cs.trace[j]
    /\ (cs.pc = "done" /\ 1 \in Attempted(cs)) =>
          \A k \in Tiers :
             ((\A j \in 1..(k - 1) : StubYield(j, cs.env) = None)
                 /\ StubYield(k, cs.env) # None)
             => /\ cs.video_url = StubYield(k, cs.env)
                /\ cs.error = "None"
                /\ \A t \in Attempted(cs) : t <= k

\* a short link was expanded, tiers 1 to 3 failed and tier 4 returned its URL
C1_Witness ==
    /\ cs.pc = "done"
    /\ cs.trace = <<0, 1, 2, 3, 4>>
    /\ cs.video_url = Markup.js_hd
    /\ cs.error = "None"

\* C2: an exception raised inside a tier never prevents the next tier from
\* being attempted, and a call that reached the tiers reports failure only
\* after all four tiers were attempted.
C2_TiersIsolated ==
    cs.pc = "done" =>
       /\ \A k \in 1..3 :
             (k \in Attempted(cs) /\ StubRaises(k, cs.env)) => (k + 1) \in Attempted(cs)
       /\ (cs.video_url = None /\ 1 \in Attempted(cs)) => Tiers \subseteq Attempted(cs)

(***************************************************************************)
(* handle_url and button_callback                                          *)
(***************************************************************************)

Init ==
    /\ cs = ChainIdle
    /\ gi = InfoIdle
    /\ config \in Configs
    /\ session = EmptySession
    /\ pc = "idle"
    /\ req = NoReq
    /\ fs = {}
    /\ db = EmptyDb
    /\ msg = "None"
    /\ gvi = NoCall
    /\ submitted = FALSE
    /\ started = 0
    /\ ExtIdle

\* large_file_uploader is not None and large_file_uploader.enabled
is_large_file_enabled == config.large_enabled

\* Database.record_download, the statistics it updates
record_download(d, download_type) ==
    [d EXCEPT !.total_downloads = @ + 1,
              !.video_downloads = IF download_type = "video" THEN @ + 1 ELSE @,
              !.audio_downloads = IF download_type = "audio" THEN @ + 1 ELSE @]

\* StoredSession without the direct URL of the fallback
StoredSession_NoDirect(url, info) ==
    [url |-> url, platform |-> detect_platform(url), title |-> info.title,
     direct_url |-> None]

\* StoredSession with info.get('url') stored whatever the direct_url flag
StoredSession_AnyUrl(url, info) ==
    [url |-> url, platform |-> detect_platform(url), title |-> info.title,
     direct_url |-> info.url]

\* the user data handle_url stores after a successful get_video_info
StoredSession(url, info) ==
    [url |-> url, platform |-> detect_platform(url), title |-> info.title,
     direct_url |-> IF info.direct_url THEN info.url ELSE None]

\* handle_url on a message whose get_video_info call returned r: the call
\* as the handler saw it, whether the session is stored, the session stored
\* and the message shown
handle_url(url, lib, r) ==
    [gvi |-> [called |-> TRUE, url |-> url, raised |-> lib.raised,
              libCalls |-> r.libCalls, chainCalls |-> r.chainCalls,
              chainUrl |-> IF r.chainCalls > 0 THEN r.chain.video_url ELSE None,
              info |-> r.info, error |-> r.error],
     stored |-> r.info.present,
     session |-> IF r.info.present THEN StoredSession(url, r.info) ELSE EmptySession,
     msg |-> IF r.info.present THEN "video_found" ELSE r.error]

\* the inputs the handlers are run against; the chain outcome is varied
\* where the chain runs, and the library returns the long title for the
\* YouTube URL and the short one for the Facebook URL
HandlerInputs ==
    {i \in {Url.youtube, Url.facebook} \X HandlerLibs \X HandlerEnvs :
        /\ (~i[2].raised \/ ~FallbackApplies(i[1])) => i[3] = EnvAllFail
        /\ i[2].title = BcLit.long => i[1] = Url.youtube
        /\ i[2].title = Gvi.clip => i[1] = Url.facebook}

\* handle_url evaluated once on each of them, and the lookup of a result
HandleUrlResults ==
    {<<i, handle_url(i[1], i[2], get_video_info(i[1], i[2], i[3]))>> : i \in HandlerInputs}

HandleUrlOn(i) ==
    (CHOOSE p \in HandleUrlResults : p[1] = i)[2]

\* the titles a session can hold, and the output path for each button
SessionTitles == {None, Gvi.facebook_video} \cup LibTitles

OutputFiles ==
    {<<t, d, OutputFile(t, d[1], d[2])>> : t \in SessionTitles, d \in Datas}

OutputFileOn(title, data) ==
    (CHOOSE p \in OutputFiles : p[1] = title /\ p[2] = data)[3]

\* a text message with a URL: metadata resolution, then the session store
HandleUrl(i) ==
    /\ pc = "idle"
    /\ \E h \in {HandleUrlOn(i)} :
          /\ gvi' = h.gvi
          /\ session' = IF h.stored THEN h.session ELSE session
          /\ msg' = h.msg
    /\ submitted' = TRUE
    /\ req' = NoReq
    /\ UNCHANGED <<cs, gi, config, pc, fs, db, started, extVars>>

\* handle_settings_callback on the stored settings of the user: the
\* quality menu changes nothing, a set_quality_ button stores its quality
handle_settings_callback(d, data) ==
    IF data = <<"settings", "video", "quality">> THEN d
    ELSE IF SubSeq(data, 1, 2) = <<"set", "quality">>
    THEN [d EXCEPT !.default_video_quality = data[3]]
    ELSE d

\* a button: the dispatch on the prefix of the callback data, and for a
\* quality / format button the session read, the output path, and the
\* start of the download
ButtonPress(data) ==
    /\ pc = "idle"
    /\ started < MaxRequests
    /\ IF data[1] = "settings"
       THEN \* query.data.startswith("settings_")
            /\ db' = handle_settings_callback(db, data)
            /\ msg' = "settings_menu"
            /\ req' = [NoReq EXCEPT !.outcome = "settings", !.data = data]
            /\ UNCHANGED <<pc, started, submitted>>
       ELSE IF session.url = None
       THEN /\ msg' = "session_expired"
            /\ req' = [NoReq EXCEPT !.outcome = "expired", !.data = data]
            /\ UNCHANGED <<pc, started, submitted, db>>
       ELSE IF Len(data) # 2
       THEN \* action, option = query.data.split('_') raises ValueError,
            \* which only error_handler answers
            /\ msg' = "error_occurred"
            /\ req' = [NoReq EXCEPT !.outcome = "raised", !.data = data]
            /\ submitted' = FALSE
            /\ UNCHANGED <<pc, started, db>>
       ELSE /\ msg' = "downloading"
            /\ req' = [NoReq EXCEPT !.action = data[1], !.option = data[2],
                                    !.data = data,
                                    !.url = session.url,
                                    !.direct_url = IF data[1] = "video"
                                                   THEN session.direct_url ELSE None,
                                    !.output_file = OutputFileOn(session.title, data),
                                    !.outcome = "running"]
            /\ pc' = "downloading"
            /\ started' = started + 1
            /\ UNCHANGED <<submitted, db>>
    /\ UNCHANGED <<cs, gi, config, session, fs, gvi, extVars>>

\* os.remove(path): the paths left when it succeeds
Removed(files, path) == files \ {path}

\* ExceedsHardCap with the check left out
ExceedsHardCap_Never(size) ==
    FALSE

\* if file_size > MAX_FILE_SIZE
ExceedsHardCap(size) ==
    size > config.MAX_FILE_SIZE

\* UsesLargeUploader with a strict comparison
UsesLargeUploader_Above(size) ==
    size > BOT_API_LIMIT /\ is_large_file_enabled

\* if file_size >= BOT_API_LIMIT and is_large_file_enabled()
UsesLargeUploader(size) ==
    size >= BOT_API_LIMIT /\ is_large_file_enabled

\* the download returns; the size check, the oversize rejection and the
\* choice and start of the upload transport
DownloadDone(outcome, size, removeFails) ==
    /\ pc = "downloading"
    /\ LET d == IF req.action = "video"
                THEN download_video(req.url, req.option, req.output_file, req.direct_url, outcome)
                ELSE download_audio(req.url, req.option, req.output_file, outcome)
           fs1 == IF d.wrote # None THEN fs \cup {d.wrote} ELSE fs
           r1 == [req EXCEPT !.result = d.result, !.wroteFile = d.wrote # None,
                             !.fetched = d.fetched, !.usedLib = d.usedLib]
       IN  IF d.result # None /\ d.result \in fs1
           THEN IF ExceedsHardCap(size)
                THEN \* the file is rejected; os.remove is outside any try,
                     \* and what it raises only error_handler answers
                     /\ msg' = IF removeFails THEN "error_occurred" ELSE "too_large"
                     /\ pc' = "idle"
                     /\ submitted' = FALSE
                     /\ IF removeFails
                        THEN /\ fs' = fs1
                             /\ req' = [r1 EXCEPT !.size = size, !.removeCalls = @ + 1,
                                                  !.removeFailed = TRUE,
                                                  !.outcome = "raised"]
                        ELSE /\ fs' = Removed(fs1, d.result)
                             /\ req' = [r1 EXCEPT !.size = size, !.removeCalls = @ + 1,
                                                  !.outcome = "oversize"]
                ELSE IF UsesLargeUploader(size)
                THEN /\ msg' = "uploading_large"
                     /\ pc' = "uploading"
                     /\ fs' = fs1
                     /\ req' = [r1 EXCEPT !.size = size, !.transport = "large",
                                          !.largeCalls = @ + 1]
                     /\ UNCHANGED submitted
                ELSE /\ msg' = "uploading"
                     /\ pc' = "uploading"
                     /\ fs' = fs1
                     /\ req' = [r1 EXCEPT !.size = size, !.transport = "standard",
                                          !.stdCalls = @ + 1]
                     /\ UNCHANGED submitted
           ELSE /\ msg' = "download_failed"
                /\ pc' = "idle"
                /\ submitted' = FALSE
                /\ fs' = fs1
                /\ req' = [r1 EXCEPT !.outcome = "download_failed"]
    /\ UNCHANGED <<cs, gi, config, session, db, gvi, started, extVars>>

\* outcomes of an upload: the high-capacity uploader returns True or False,
\* the standard transport returns; either call may raise
UploadOutcomes == {"ok", "false", "raise"}

\* UploadRecorded whatever the upload returned
UploadRecorded_Always(outcome) ==
    TRUE

\* db.record_download is reached: `if success:` for the uploader, no
\* exception from send_video / send_audio for the standard transport
UploadRecorded(outcome) ==
    outcome = "ok"

\* the upload returns; the download is recorded on success, then the
\* clean-up inside try / except: pass
UploadDone(outcome, removeFails) ==
    /\ pc = "uploading"
    /\ req.transport = "standard" => outcome # "false"
    /\ LET present == req.result \in fs
           r1 == [req EXCEPT !.removeCalls = IF present THEN @ + 1 ELSE @,
                             !.removeFailed = present /\ removeFails,
                             !.outcome = IF outcome = "ok" THEN "sent" ELSE "upload_failed"]
       IN  /\ IF UploadRecorded(outcome)
              THEN /\ db' = record_download(db, req.action)
                   /\ req' = [r1 EXCEPT !.recorded = @ + 1]
              ELSE /\ db' = db
                   /\ req' = r1
           /\ msg' = IF outcome = "ok"
                     THEN IF req.transport = "large" THEN "large_sent" ELSE "sent"
                     ELSE IF outcome = "false" THEN "upload_failed" ELSE "upload_error"
           /\ fs' = IF present /\ ~removeFails THEN Removed(fs, req.result) ELSE fs
    /\ pc' = "idle"
    /\ submitted' = FALSE
    /\ UNCHANGED <<cs, gi, config, session, gvi, started, extVars>>

Next ==
    \/ \E i \in HandlerInputs : HandleUrl(i)
    \/ \E data \in Datas \cup OtherDatas : ButtonPress(data)
    \/ \E outcome \in FetchOutcomes, size \in Sizes, removeFails \in BOOLEAN :
          DownloadDone(outcome, size, removeFails)
    \/ \E outcome \in UploadOutcomes, removeFails \in BOOLEAN :
          UploadDone(outcome, removeFails)

Spec == Init /\ [][Next]_vars


(***************************************************************************)
(* The session and the keyboards: each URL message answered with a         *)
(* keyboard, each keyboard pressed at any later time                       *)
(***************************************************************************)

\* handle_url on a text message with a URL: as HandleUrl, and the reply
\* carries the keyboard, here with the session it was generated for
UrlMessage(i) ==
    /\ \E h \in {HandleUrlOn(i)} :
          /\ gvi' = h.gvi
          /\ session' = IF h.stored THEN h.session ELSE session
          /\ msg' = h.msg
          /\ keyboards' = IF h.stored
                          THEN [keyboards EXCEPT !.shown = @ \cup {h.session}]
                          ELSE keyboards
    /\ req' = NoReq
    /\ UNCHANGED <<cs, gi, config, pc, fs, db, submitted, started,
                   dp, user_requests, now, last, answers, db_data, bot_data, recorded>>

\* button_callback on a quality / format button of the message m, up to
\* the start of the download: the keyboard of m removed, the session read
KeyboardPress(m, data) ==
    /\ m \in keyboards.shown
    /\ keyboards' = [shown |-> keyboards.shown \ {m}, pressed |-> m]
    /\ msg' = "downloading"
    /\ req' = [NoReq EXCEPT !.action = data[1], !.option = data[2], !.data = data,
                            !.url = session.url,
                            !.direct_url = IF data[1] = "video"
                                           THEN session.direct_url ELSE None,
                            !.output_file = OutputFileOn(session.title, data),
                            !.outcome = "running"]
    /\ UNCHANGED <<cs, gi, config, session, pc, fs, db, gvi, submitted, started,
                   dp, user_requests, now, last, answers, db_data, bot_data, recorded>>

SessionNext ==
    \/ \E i \in HandlerInputs : UrlMessage(i)
    \/ \E m \in keyboards.shown, data \in Datas : KeyboardPress(m, data)

SpecSession == IdleInit /\ [][SessionNext]_vars

(***************************************************************************)
(* Properties of get_video_info                                            *)
(***************************************************************************)

\* C8: get_video_info invokes the fallback chain exactly when the library
\* call raised and detect_platform classifies the URL as Facebook; never
\* for a failed call on a URL of another platform, never after a
\* successful library call
C8_ChainExactlyOnFacebookFailure ==
    gi.pc = "done" =>
       /\ gi.result.chainCalls <= 1
       /\ (gi.result.chainCalls = 1)
             <=> (gi.lib.raised /\ detect_platform(gi.url) = "Facebook")

(***************************************************************************)
(* Properties of delivery, clean-up, recording and the session             *)
(***************************************************************************)

\* the size check of the current request has been made on a file that exists
Sized == req.size # 0

\* the request has ended after the size check
EndedAfterSizeCheck ==
    req.outcome \in {"sent", "upload_failed", "oversize", "raised"}

\* C3: when the file is at or above BOT_API_LIMIT and the high-capacity
\* uploader is not available, the standard transport is not invoked for
\* that file and the user is told of a failure
C3_NoStandardTransportAtThreshold ==
    (Sized /\ req.size >= BOT_API_LIMIT /\ ~is_large_file_enabled) =>
       /\ req.stdCalls = 0
       /\ msg \notin {"uploading", "sent"}

\* C4: a file within the hard cap is routed by BOT_API_LIMIT: below it only
\* the standard transport is invoked, at or above it with the uploader
\* available only the high-capacity uploader, and never both for one file
C4_RoutedByThreshold ==
    /\ ~(req.stdCalls > 0 /\ req.largeCalls > 0)
    /\ (Sized /\ req.size <= config.MAX_FILE_SIZE) =>
          /\ req.size < BOT_API_LIMIT =>
                (req.stdCalls = 1 /\ req.largeCalls = 0 /\ req.transport = "standard")
          /\ (req.size >= BOT_API_LIMIT /\ is_large_file_enabled) =>
                (req.largeCalls = 1 /\ req.stdCalls = 0 /\ req.transport = "large")

\* a file of exactly BOT_API_LIMIT went through the high-capacity uploader
C4_Witness ==
    /\ req.size = BOT_API_LIMIT
    /\ is_large_file_enabled
    /\ req.largeCalls = 1
    /\ req.stdCalls = 0
    /\ req.outcome = "sent"

\* C5: when the file exceeds MAX_FILE_SIZE the handler calls os.remove on
\* it (the file is gone once that call returns), invokes neither transport
\* and records no download
C5_OversizeRejected ==
    (Sized /\ req.size > config.MAX_FILE_SIZE) =>
       /\ req.removeCalls = 1
       /\ ~req.removeFailed => req.result \notin fs
       /\ req.stdCalls = 0
       /\ req.largeCalls = 0
       /\ req.transport = "none"
       /\ req.recorded = 0

\* an oversized file was written, rejected and removed
C5_Witness ==
    /\ req.wroteFile
    /\ req.size > config.MAX_FILE_SIZE
    /\ req.outcome = "oversize"
    /\ req.removeCalls = 1
    /\ req.result \notin fs
    /\ msg = "too_large"

\* C6: once delivery of a downloaded file has finished on any path, the
\* file no longer exists (os.remove was called, and the file is gone when
\* the call succeeded), and a failure to delete it does not raise out of
\* the handler
C6_FileRemovedAndFailureSwallowed ==
    (Sized /\ EndedAfterSizeCheck) =>
       /\ req.removeCalls = 1
       /\ ~req.removeFailed => req.result \notin fs
       /\ req.outcome # "raised"

\* C7: record_download is called exactly once for a request whose upload
\* succeeded, through either transport, and never for a request that ended
\* in download failure, oversize rejection or upload failure
C7_RecordedExactlyOnSuccess ==
    /\ req.outcome = "sent" => req.recorded = 1
    /\ req.outcome \in {"download_failed", "oversize", "raised", "upload_failed",
                        "expired", "running", "none"} => req.recorded = 0
    /\ db.total_downloads = db.video_downloads + db.audio_downloads
    /\ db.total_downloads <= started

\* a second request was delivered by the standard transport and recorded
C7_Witness ==
    /\ req.outcome = "sent"
    /\ req.transport = "standard"
    /\ req.recorded = 1
    /\ db.total_downloads = 2

\* the last get_video_info of handle_url met a failed library call on a
\* Facebook URL and a chain that yielded a URL
ChainYielded ==
    /\ gvi.called
    /\ gvi.raised
    /\ detect_platform(gvi.url) = "Facebook"
    /\ gvi.chainUrl # None

\* C9: when the library call fails for a Facebook URL and the chain yields
\* u, get_video_info returns (info, no error) with info carrying u, the
\* direct_url flag and the placeholder title; handle_url stores u as the
\* session's direct URL; the following video download is fetched from u
C9_ChainUrlReachesDownload ==
    ChainYielded =>
       /\ gvi.error = "None"
       /\ gvi.info = [present |-> TRUE, url |-> gvi.chainUrl,
                      title |-> Gvi.facebook_video, direct_url |-> TRUE]
       /\ session.url = gvi.url
       /\ session.direct_url = gvi.chainUrl
       /\ (req.action = "video" /\ req.outcome \notin {"none", "expired", "running"}) =>
             (req.fetched = gvi.chainUrl /\ ~req.usedLib)

\* tier 3 yielded a URL with an escaped ampersand, and the video was
\* fetched from the decoded URL and sent
C9_Witness ==
    /\ ChainYielded
    /\ gvi.chainUrl = Tier3Clean(Markup.re_u)
    /\ req.action = "video"
    /\ req.fetched = gvi.chainUrl
    /\ req.outcome = "sent"

\* C10: after a request has ended, a button press without a newly
\* submitted URL starts no download and is answered as an expired session
C10_EndedRequestNotResumed ==
    /\ req.outcome = "running" => submitted
    /\ pc = "downloading" => submitted

\* the pairs (url, direct): the fallback chain, invoked by get_video_info
\* after a failed library call on url, produced direct
ChainProducts ==
    {<<i[1], HandleUrlOn(i).gvi.chainUrl>> :
        i \in {j \in HandlerInputs : j[2].raised /\ HandleUrlOn(j).gvi.chainCalls = 1}}

\* C12: a direct URL is present only when extraction used the fallback
\* chain: the direct_url download_video is started with, and the one the
\* session carries, was produced by the chain for the URL stored with it,
\* and a session stored from the extraction library's metadata carries none
C12_DirectUrlOnlyFromChain ==
    /\ req.direct_url # None =>
          (req.action = "video" /\ <<req.url, req.direct_url>> \in ChainProducts)
    /\ session.direct_url # None => <<session.url, session.direct_url>> \in ChainProducts
    /\ (gvi.called /\ gvi.info.present /\ gvi.chainCalls = 0) =>
          (session.url = gvi.url /\ session.direct_url = None)
    /\ pc = "downloading" =>
          (req.url = session.url
           /\ req.direct_url = IF req.action = "video" THEN session.direct_url ELSE None)

\* a video download was started with the URL tier 1 of the chain produced
C12_Witness ==
    /\ pc = "downloading"
    /\ req.action = "video"
    /\ req.direct_url = Markup.sd
    /\ session.direct_url = Markup.sd

\* C13: a download_video call made with a direct URL has returned without
\* going through the extraction library's download, whether the fetch
\* succeeded or failed, and the path it returned, if any, ends in .mp4
C13_DirectDownloadBypassesLibrary ==
    (req.action = "video" /\ req.direct_url # None /\ pc # "downloading") =>
       /\ ~req.usedLib
       /\ req.fetched = req.direct_url
       /\ req.result # None => EndsWith(req.result, BcLit.dot \o BcLit.mp4)

\* a direct download was asked for a path that does not end in .mp4 and
\* returned a path that does
C13_Witness ==
    /\ req.action = "video"
    /\ req.direct_url # None
    /\ pc = "uploading"
    /\ ~EndsWith(req.output_file, BcLit.dot \o BcLit.mp4)
    /\ req.result # req.output_file
    /\ EndsWith(req.result, BcLit.dot \o BcLit.mp4)
    /\ ~req.usedLib

\* C14: the output path built by button_callback still contains the
\* quality / format option after the two sanitisations, and one title
\* requested with two different options yields two different paths
C14_SuffixKeptInPath ==
    /\ req.output_file # None => IsSubstr(req.option, req.output_file)
    /\ session.url # None =>
          \A d1, d2 \in Datas :
             d1 # d2 => OutputFileOn(session.title, d1) # OutputFileOn(session.title, d2)

\* C15: no exception raised while a URL message or a button press is
\* handled leaves the handler: no request ends with an exception raised
\* out of button_callback, and the user is never answered by the
\* framework's error handler
C15_NoExceptionEscapes ==
    /\ req.outcome # "raised"
    /\ msg # "error_occurred"

\* C16: the block of platform-specific options get_base_options applies to
\* a URL is the one of detect_platform(url): the TikTok, Facebook,
\* Instagram or YouTube block exactly for a URL so classified, and no block
\* for any other classification
C16_OptionsFollowClassification ==
    gi.pc = "done" =>
       gi.options = IF detect_platform(gi.url) \in {"TikTok", "Facebook", "Instagram", "YouTube"}
                    THEN detect_platform(gi.url)
                    ELSE "none"

\* the error text carries the signature of a known category: parse failure,
\* timeout, connection reset, private or login required, not found,
\* geo-restricted, age-restricted
KnownSignature(error_msg) ==
    LET e == Lower(error_msg)
    IN  \/ IsSubstr(<<"c","a","n","n","o","t"," ","p","a","r","s","e"," ","d","a","t","a">>, e)
        \/ IsSubstr(<<"t","i","m","e","o","u","t">>, e) \/ IsSubstr(<<"t","i","m","e","d"," ","o","u","t">>, e)
        \/ /\ IsSubstr(<<"c","o","n","n","e","c","t","i","o","n">>, e)
           /\ \/ IsSubstr(<<"r","e","s","e","t">>, e) \/ IsSubstr(<<"a","b","o","r","t","e","d">>, e)
              \/ IsSubstr(<<"1","0","0","5","4">>, error_msg)
        \/ IsSubstr(<<"p","r","i","v","a","t","e">>, e)
        \/ IsSubstr(<<"l","o","g","i","n">>, e) \/ IsSubstr(<<"s","i","g","n"," ","i","n">>, e)
        \/ IsSubstr(<<"n","o","t"," ","f","o","u","n","d">>, e) \/ IsSubstr(<<"4","0","4">>, error_msg)
        \/ IsSubstr(<<"g","e","o">>, e) \/ IsSubstr(<<"r","e","g","i","o","n">>, e)
        \/ IsSubstr(<<"i","n","a","p","p","r","o","p","r","i","a","t","e">>, e)
        \/ IsSubstr(<<"u","n","a","v","a","i","l","a","b","l","e"," ","f","o","r"," ","c","e","r","t","a","i","n"," ","a","u","d","i","e","n","c","e","s">>, e)

\* C17: when no fallback applies, the explanation of a failed call is that
\* of the first matching signature whatever the platform: the same error
\* text is explained alike on every such URL, and the generic message, which
\* names the platform, is returned exactly when no known signature matches
C17_ExplanationBySignature ==
    (gi.pc = "done" /\ gi.lib.raised /\ ~FallbackApplies(gi.url)) =>
       /\ (gi.result.error = "generic_" \o detect_platform(gi.url))
             <=> ~KnownSignature(gi.lib.msg)
       /\ KnownSignature(gi.lib.msg) =>
             \A u \in Urls :
                ~FallbackApplies(u) => ErrorExplanation(u, gi.lib.msg) = gi.result.error

\* C18: for a TikTok URL whose metadata resolution fails with a
\* connection-reset error (its text names a connection together with a
\* reset, an abort or the number 10054), get_video_info returns the Error
\* 10054 explanation, and never the TikTok timeout explanation
C18_TikTokResetExplained ==
    (/\ gi.pc = "done" /\ gi.lib.raised /\ detect_platform(gi.url) = "TikTok"
        /\ IsSubstr(<<"c","o","n","n","e","c","t","i","o","n">>, Lower(gi.lib.msg))
        /\ \/ IsSubstr(<<"r","e","s","e","t">>, Lower(gi.lib.msg))
           \/ IsSubstr(<<"a","b","o","r","t","e","d">>, Lower(gi.lib.msg))
           \/ IsSubstr(<<"1","0","0","5","4">>, gi.lib.msg)) =>
       (~gi.result.info.present /\ gi.result.error = "tiktok_error_10054")

\* C19: one call of get_video_info makes one extraction-library info call
\* and at most one fallback-chain invocation, and the chain is invoked only
\* after the library call has failed; neither is tried again
C19_SingleAttemptThenFallback ==
    gi.pc = "done" =>
       /\ gi.result.libCalls = 1
       /\ gi.result.chainCalls \in {0, 1}
       /\ gi.result.chainCalls = 1 => gi.lib.raised
       /\ ~gi.lib.raised => (gi.result.info = LibInfo(gi.lib) /\ gi.result.error = "None")

\* the library call failed on a short link, the chain was run once, failed
\* in every tier, and the call ended with the Facebook explanation
C19_Witness ==
    /\ gi.pc = "done"
    /\ gi.url = Url.fbwatch
    /\ gi.lib.raised
    /\ gi.result.libCalls = 1
    /\ gi.result.chainCalls = 1
    /\ gi.result.chain.pc = "done"
    /\ gi.result.chain.trace = <<0, 1, 2, 3, 4>>
    /\ gi.result.error = "facebook_failed"

\* C20: a finished call of try_facebook_html_fallback has returned exactly
\* one of a URL and an error message; when the redirect step raised, or
\* every tier it reached failed or raised, the URL is null and the error
\* message is not
C20_UrlOrErrorMessage ==
    cs.pc = "done" =>
       /\ (cs.video_url = None) <=> (cs.error # "None")
       /\ (\A k \in Attempted(cs) \cap Tiers : StubYield(k, cs.env) = None) =>
             (cs.video_url = None /\ cs.error # "None")
       /\ (4 \in Attempted(cs) /\ cs.video_url = None) => cs.error = AllTiersFailedMsg

\* all four tiers were attempted and failed: the call returned no URL and
\* the message of line 311
C20_Witness ==
    /\ cs.pc = "done"
    /\ cs.trace = <<1, 2, 3, 4>>
    /\ \A k \in Tiers : StubYield(k, cs.env) = None
    /\ cs.video_url = None
    /\ cs.error = AllTiersFailedMsg
(***************************************************************************)
(* Properties of detect_platform                                           *)
(***************************************************************************)

\* the platforms in the order of the claim, each with its domain patterns
PlatformTable ==
    << <<"YouTube", {DpPat.youtube_com, DpPat.youtu_be}>>,
       <<"Instagram", {DpPat.instagram_com}>>,
       <<"TikTok", {DpPat.tiktok_com}>>,
       <<"Facebook", {FbPat.facebook_com, FbPat.fb_watch}>>,
       <<"Twitter/X", {DpPat.twitter_com, DpPat.x_com}>>,
       <<"Reddit", {DpPat.reddit_com}>>,
       <<"Vimeo", {DpPat.vimeo_com}>> >>

\* C21: detect_platform returns the tag of the first platform, in the order
\* YouTube, Instagram, TikTok, Facebook, Twitter/X, Reddit, Vimeo, one of
\* whose domain patterns occurs in the lower-cased URL, Other exactly when
\* none occurs, and the same tag when it is called again on the same URL
C21_FirstMatchingPlatform ==
    dp.pc = "done" =>
       /\ \E hits \in {{k \in 1..Len(PlatformTable) :
                          \E p \in PlatformTable[k][2] : IsSubstr(p, Lower(dp.url))}} :
             /\ hits = {} <=> dp.platform = "Other"
             /\ hits # {} =>
                   \E k \in hits : /\ \A j \in hits : k <= j
                                   /\ dp.platform = PlatformTable[k][1]
       /\ dp.again = dp.platform

\* a URL naming a TikTok domain and, after it, a YouTube domain has been
\* classified twice, as YouTube
C21_Witness ==
    /\ dp.pc = "done"
    /\ IsSubstr(DpPat.tiktok_com \o FbPat.slash \o DpPat.youtube_com, dp.url)
    /\ dp.platform = "YouTube"
    /\ dp.again = "YouTube"

(***************************************************************************)
(* Properties of the rate limiter, the gates of handle_url and the bans    *)
(***************************************************************************)

\* C22: for every user, the calls of is_allowed answered "allowed" inside
\* any window (t - 60 s, t] are never more than requests_per_minute, and a
\* call made by one user leaves the request list of every other user, which
\* alone decides the answer they get, as it was
C22_WindowRespectedPerUser ==
    /\ [](\A u \in Users : \A t \in 0..now :
             Cardinality({i \in 1..Len(answers[u].allowed_at) :
                            /\ answers[u].allowed_at[i] > t - WindowSeconds * TicksPerSecond
                            /\ answers[u].allowed_at[i] <= t})
                <= RATE_LIMIT_REQUESTS)
    /\ [][\A u \in Users : u # last'.user => user_requests'[u] = user_requests[u]]_vars

\* one user has used up the window and was denied, and another user
\* calling at the same time was allowed
C22_Witness ==
    /\ last.kind = "call"
    /\ last.user = 4
    /\ last.allowed
    /\ answers[3].last.made
    /\ ~answers[3].last.allowed
    /\ answers[3].last.at = now
    /\ Len(answers[3].allowed_at) = RATE_LIMIT_REQUESTS

\* C23: handle_url applies its gates in the order ban check, rate limit
\* (non-admins only), is_url, validate_url, and calls get_video_info only
\* behind all of them: a banned user ends at the ban check with the rate
\* limiter not consulted, an admin never consults the rate limiter and has
\* no request list, a non-admin over the limit ends there, and the URL
\* checks are reached only by a user who passed the gates before them
C23_GatesBeforeExtraction ==
    last.kind = "text" =>
       \E banned \in {\E i \in 1..Len(last.before) : last.before[i] = last.user} :
          /\ banned => (last.stage = "banned" /\ ~last.consulted)
          /\ is_admin(last.user) =>
                /\ ~last.consulted
                /\ user_requests[last.user] = <<>>
                /\ ~answers[last.user].last.made
          /\ (~banned /\ ~is_admin(last.user)) => last.consulted
          /\ (last.consulted /\ ~last.allowed) => last.stage = "rate_limited"
          /\ last.stage \in {"not_url", "unsafe_url", "extraction"} =>
                /\ ~banned
                /\ is_admin(last.user) \/ (last.consulted /\ last.allowed)
                /\ last.stage = UrlGatesOn(last.text).stage
          /\ last.extracted <=> last.stage = "extraction"

\* a banned user sent a public URL: the handler ended at the ban check,
\* with the rate limiter not consulted and no extraction
C23_Witness ==
    /\ last.kind = "text"
    /\ last.user = 3
    /\ last.before = <<3>>
    /\ UrlGatesOn(last.text).stage = "extraction"
    /\ last.stage = "banned"
    /\ ~last.consulted
    /\ ~last.extracted

\* C24: a denial of is_allowed tells a wait of at least one second, and a
\* call the same user makes exactly that many seconds after the denial,
\* with no call of theirs in between, is allowed
C24_WaitToldIsEnough ==
    last.kind = "call" =>
       /\ ~last.allowed => last.wait >= 1
       /\ (/\ last.prev.made
           /\ ~last.prev.allowed
           /\ last.at = last.prev.at + last.prev.wait * TicksPerSecond) => last.allowed

\* C27: banned_users holds no ID twice and no admin's ID, and a /ban or
\* /unban sent by a user who is no admin leaves it as it was
C27_BansOnlyByAdminsNeverOfAdmins ==
    /\ \A i, j \in 1..Len(db_data.banned_users) :
          i # j => db_data.banned_users[i] # db_data.banned_users[j]
    /\ \A i \in 1..Len(db_data.banned_users) : ~is_admin(db_data.banned_users[i])
    /\ (last.kind \in {"ban", "unban"} /\ ~is_admin(last.user)) =>
          db_data.banned_users = last.before

\* with two users banned, an admin sent /ban with the ID of the other
\* admin, and the list is as it was
C27_Witness ==
    /\ last.kind = "ban"
    /\ last.user = 1
    /\ last.target = 2
    /\ Len(db_data.banned_users) = 2
    /\ db_data.banned_users = last.before

(***************************************************************************)
(* Properties of the database                                              *)
(***************************************************************************)

\* the sum of the values of a counter table
SumOf(f) ==
    LET S[K \in SUBSET DOMAIN f] ==
           IF K = {} THEN 0
           ELSE f[CHOOSE k \in K : TRUE] + S[K \ {CHOOSE k \in K : TRUE}]
    IN  S[DOMAIN f]

\* C25: on the module-level Database, total_downloads is video_downloads
\* plus audio_downloads and the sum of platform_stats, every user record
\* has its total equal to its video plus audio count, the users' totals
\* together are at most the global total, and total_users is the number of
\* user records
C25_CountersConsistent ==
    /\ db_data.statistics.total_downloads
          = db_data.statistics.video_downloads + db_data.statistics.audio_downloads
    /\ db_data.statistics.total_downloads = SumOf(db_data.statistics.platform_stats)
    /\ \A u \in DOMAIN db_data.users :
          db_data.users[u].total_downloads
             = db_data.users[u].video_downloads + db_data.users[u].audio_downloads
    /\ SumOf([u \in DOMAIN db_data.users |-> db_data.users[u].total_downloads])
          <= db_data.statistics.total_downloads
    /\ db_data.statistics.total_users = Cardinality(DOMAIN db_data.users)

\* two users are known, one of them was tracked again, and downloads were
\* recorded for a user before and after they became known
C25_Witness ==
    /\ db_data.statistics.total_users = 2
    /\ db_data.statistics.total_downloads = 3
    /\ db_data.statistics.video_downloads = 2
    /\ DOMAIN db_data.statistics.platform_stats = {"YouTube", "TikTok"}
    /\ SumOf([u \in DOMAIN db_data.users |-> db_data.users[u].total_downloads]) = 2

\* C26: download_history of the module-level Database holds at most the
\* limit of entries, in the order they were recorded; each is an entry
\* recorded on it and not cleared since; and an entry recorded on it that
\* it no longer holds was cleared with its user's history or has at least
\* the limit of entries recorded after it
C26_HistoryBoundedRecentOrdered ==
    /\ Len(db_data.download_history) <= HistoryLimit
    /\ \A i, j \in 1..Len(db_data.download_history) :
          i < j => db_data.download_history[i].timestamp
                      < db_data.download_history[j].timestamp
    /\ \A i \in 1..Len(db_data.download_history) :
          \E k \in 1..Len(recorded) :
             /\ recorded[k].via = "db"
             /\ ~recorded[k].cleared
             /\ db_data.download_history[i]
                   = [user_id |-> recorded[k].user_id, type |-> recorded[k].type,
                      platform |-> recorded[k].platform,
                      timestamp |-> recorded[k].timestamp]
    /\ \A k \in 1..Len(recorded) :
          (recorded[k].via = "db" /\ ~recorded[k].cleared) =>
             \/ \E i \in 1..Len(db_data.download_history) :
                   db_data.download_history[i].timestamp = recorded[k].timestamp
             \/ Cardinality({m \in (k + 1)..Len(recorded) : recorded[m].via = "db"})
                   >= HistoryLimit

\* the history is full, one entry was pushed out by the limit and another
\* was cleared with its user's history
C26_Witness ==
    /\ Len(db_data.download_history) = HistoryLimit
    /\ \E k \in 1..Len(recorded) : recorded[k].cleared
    /\ \E k \in 1..Len(recorded) :
          /\ recorded[k].via = "db"
          /\ ~recorded[k].cleared
          /\ \A i \in 1..Len(db_data.download_history) :
                db_data.download_history[i].timestamp # recorded[k].timestamp

\* C28: the total_downloads persisted in bot_data.json is the number of
\* record_download calls completed so far, through the URL path and the
\* song-search path together
C28_NoRecordedDownloadLost ==
    bot_data.statistics.total_downloads = Len(recorded)

(***************************************************************************)
(* Properties of the session                                               *)
(***************************************************************************)

\* C29: the download a button press starts is the one of the message
\* whose button was pressed: its URL, its title in the output path, and
\* for a video its direct URL
C29_PressDownloadsItsOwnUrl ==
    req.outcome = "running" =>
       /\ req.url = keyboards.pressed.url
       /\ req.output_file = OutputFileOn(keyboards.pressed.title, <<req.action, req.option>>)
       /\ req.action = "video" => req.direct_url = keyboards.pressed.direct_url

\* C30: a press of a settings option button (set_quality_<q>) is handled
\* by handle_settings_callback and leaves the user's default video quality
\* set to the chosen value
C30_SettingsOptionStored ==
    (Len(req.data) = 3 /\ req.data[1] = "set") =>
       /\ req.outcome = "settings"
       /\ db.default_video_quality = req.data[3]

====
